---- MODULE Spec2Model ----
(***************************************************************************)
(* Sky clock: the sky-colour phase mapping, the gradient sampler, the      *)
(* noon-at-top angle projection and the controller's render step.          *)
(*                                                                         *)
(* JavaScript numbers are modelled as exact fractions <<n, d>> with d > 0, *)
(* extended with the three IEEE-754 special values the code can produce by *)
(* dividing by zero: <<1,0>> = Infinity, <<-1,0>> = -Infinity and          *)
(* <<0,0>> = NaN.  Date values are whole minutes since the epoch (UTC).    *)
(* A '#rrggbb' string is the sequence of its six hexadecimal digits; an    *)
(* 'rgb(r, g, b)' string is the triple of its three channel numbers.       *)
(* Angles are fractions of pi.                                             *)
(***************************************************************************)
EXTENDS Integers, Sequences, FiniteSets, TLC

VARIABLES
    mode,               \* state.mode: "rotating" or "fixed"
    location,           \* state.location: <<>> (null) or <<lat, lng>>
    timezoneOffset,     \* state.timezoneOffset (hours, a number)
    sunData,            \* state.sunData: <<>> (null) or six instants
    currentTime,        \* state.currentTime (a Date: minutes since epoch)
    date,               \* state.date (a Date)
    pending,            \* SunService.fetchSunData requests in flight
    frame,              \* what the last render() drew; <<>> before the first
    colors,             \* ClockFaceLayer.colors (the generated palettes)
    phases,             \* last result of calculatePhasePercentages, or <<>>
    progress,           \* progress argument of the last sampling call, or <<>>
    gradient,           \* the last getGradientColor call: arguments, indices, result
    hours,              \* last result of getHoursAtLocation, or <<>>
    angle,              \* last result of getAngleAtLocation, or <<>>
    times,              \* SunCalc.getMoonTimes for the date: rise and set, each an instant or <<>>
    position,           \* SunCalc.getMoonPosition for the date: its azimuth, as a fraction of pi
    moon,               \* the last MoonService call: its steps and result, or <<>>
    dimensions,         \* the ClockDimensions handed to the layer, or <<>>
    glyph,              \* what the last renderSun / renderMoon placed, or <<>>
    userColorSequence,  \* ClockFaceLayer.userColorSequence: the entries of the array
    argument,           \* the array last handed to setCustomColors, still held by its caller
    store,              \* localStorage item 'skyClockColors': <<>> (absent) or its text
    pickers,            \* the values of the twelve .color-picker inputs, by data-index
    loaded,             \* what the last loadSavedColors did, or <<>>
    timelapse,          \* SkyClock.timelapse: enabled, speed, simulatedTime, lastFrameTime, lastDateStr
    alert,              \* the message of the last alert() shown, "" before the first
    clock               \* the timestamp of the last animation frame (milliseconds)

vars == <<mode, location, timezoneOffset, sunData, currentTime, date, pending, frame,
          colors, phases, progress, gradient, hours, angle, times, position, moon,
          dimensions, glyph, userColorSequence, argument, store, pickers, loaded,
          timelapse, alert, clock>>

-----------------------------------------------------------------------------
(* JavaScript numbers *)

Abs(x) == IF x < 0 THEN -x ELSE x

Sign(x) == IF x > 0 THEN 1 ELSE IF x < 0 THEN -1 ELSE 0

RECURSIVE GCD(_, _)
GCD(a, b) == IF b = 0 THEN a ELSE GCD(b, a % b)

\* the number n/d in lowest terms; n/0 is Infinity, -Infinity or NaN by the sign of n
Num(n, d) ==
    IF d = 0 THEN <<Sign(n), 0>>
    ELSE LET g == GCD(Abs(n), Abs(d))
             s == Sign(d)
         IN  <<(s * n) \div g, (s * d) \div g>>

N(k) == <<k, 1>>

NaN == <<0, 0>>

IsNaN(a) == a = NaN

IsFinite(a) == a[2] # 0

Neg(a) == <<-a[1], a[2]>>

\* a + b
Add(a, b) ==
    IF IsFinite(a) /\ IsFinite(b)
    THEN LET g == GCD(a[2], b[2])
         IN  Num(a[1] * (b[2] \div g) + b[1] * (a[2] \div g), (a[2] \div g) * b[2])
    ELSE IF IsNaN(a) \/ IsNaN(b) THEN NaN
    ELSE IF IsFinite(a) THEN b
    ELSE IF IsFinite(b) THEN a
    ELSE IF a = b THEN a ELSE NaN

\* a - b
Sub(a, b) == Add(a, Neg(b))

\* a * b  (Infinity * 0 = NaN)
Mul(a, b) == Num(a[1] * b[1], a[2] * b[2])

\* a / b  (x / 0 = +-Infinity, 0 / 0 = NaN)
Div(a, b) ==
    LET s == IF b[1] < 0 THEN -1 ELSE 1
    IN  Num(s * a[1] * b[2], s * a[2] * b[1])

\* a < b  (false when either side is NaN)
Lt(a, b) ==
    /\ ~IsNaN(a)
    /\ ~IsNaN(b)
    /\ a # b
    /\ IF IsFinite(a) /\ IsFinite(b)
       THEN LET g == GCD(a[2], b[2])
            IN  a[1] * (b[2] \div g) < b[1] * (a[2] \div g)
       ELSE IF ~IsFinite(a) THEN a[1] < 0
       ELSE b[1] > 0

\* a >= b
Ge(a, b) == ~IsNaN(a) /\ ~IsNaN(b) /\ ~Lt(a, b)

\* a > b
Gt(a, b) == Lt(b, a)

MathMin(a, b) == IF IsNaN(a) \/ IsNaN(b) THEN NaN ELSE IF Lt(b, a) THEN b ELSE a

MathMax(a, b) == IF IsNaN(a) \/ IsNaN(b) THEN NaN ELSE IF Lt(a, b) THEN b ELSE a

MathFloor(a) == IF IsFinite(a) THEN N(a[1] \div a[2]) ELSE a

\* Math.round rounds half up
MathRound(a) == IF IsFinite(a) THEN N((2 * a[1] + a[2]) \div (2 * a[2])) ELSE a

\* array[i] for a number i: undefined (<<>>) unless i is an index of the array
undefined == <<>>

At(array, i) ==
    IF IsFinite(i) /\ i[2] = 1 /\ i[1] >= 0 /\ i[1] < Len(array)
    THEN array[i[1] + 1]
    ELSE undefined

Reverse(s) == [i \in 1..Len(s) |-> s[Len(s) + 1 - i]]

-----------------------------------------------------------------------------
(* TimeUtils *)

MinutesPerHour == 60

HoursPerDay == 24

getUTCHours(instant) == (instant \div MinutesPerHour) % HoursPerDay

getUTCMinutes(instant) == instant % MinutesPerHour

RECURSIVE AddWhileNegative(_)
AddWhileNegative(localHours) ==
    IF Lt(localHours, N(0)) THEN AddWhileNegative(Add(localHours, N(HoursPerDay)))
    ELSE localHours

RECURSIVE SubtractWhileOver(_)
SubtractWhileOver(localHours) ==
    IF Ge(localHours, N(HoursPerDay)) THEN SubtractWhileOver(Sub(localHours, N(HoursPerDay)))
    ELSE localHours

\* the wrap done once instead of repeatedly
getHoursAtLocationOnce(instant, tzOffset) ==
    LET utcHours == Add(N(getUTCHours(instant)), Div(N(getUTCMinutes(instant)), N(MinutesPerHour)))
        localHours == Add(utcHours, tzOffset)
        raised == IF Lt(localHours, N(0)) THEN Add(localHours, N(HoursPerDay)) ELSE localHours
    IN  IF Ge(raised, N(HoursPerDay)) THEN Sub(raised, N(HoursPerDay)) ELSE raised

\* instants are whole minutes, so date.getUTCSeconds() / 3600 is 0
getHoursAtLocation(instant, tzOffset) ==
    LET utcHours == Add(N(getUTCHours(instant)), Div(N(getUTCMinutes(instant)), N(MinutesPerHour)))
        localHours == Add(utcHours, tzOffset)
    IN  SubtractWhileOver(AddWhileNegative(localHours))

\* the result is a fraction of pi: (adjustedHours * Math.PI) / 12
MathPI == N(1)

HalfDayHours == 12

\* midnight at angle zero instead of noon
getAngleAtLocationMidnightZero(instant, tzOffset) ==
    Div(Mul(getHoursAtLocation(instant, tzOffset), MathPI), N(HalfDayHours))

getAngleAtLocation(instant, tzOffset) ==
    LET localHours == getHoursAtLocation(instant, tzOffset)
        adjustedHours == Sub(localHours, N(HalfDayHours))
    IN  Div(Mul(adjustedHours, MathPI), N(HalfDayHours))

-----------------------------------------------------------------------------
(* ColorUtils *)

HexBase == 16

MaxChannel == 255

HexDigits == 0..(HexBase - 1)

\* /^#?([a-f\d]{2})([a-f\d]{2})([a-f\d]{2})$/i matches exactly six hex digits
IsHexColor(hex) == Len(hex) = 6 /\ \A k \in 1..Len(hex) : hex[k] \in HexDigits

hexToRgb(hex) ==
    IF IsHexColor(hex)
    THEN [r |-> HexBase * hex[1] + hex[2],
          g |-> HexBase * hex[3] + hex[4],
          b |-> HexBase * hex[5] + hex[6]]
    ELSE [r |-> 0, g |-> 0, b |-> 0]

\* two hex digits of one channel; NaN prints as text that is no hex colour
toHexPair(x) ==
    LET v == MathRound(MathMax(N(0), MathMin(N(MaxChannel), x)))
    IN  IF IsFinite(v) THEN <<v[1] \div HexBase, v[1] % HexBase>> ELSE <<HexBase>>

rgbToHex(r, g, b) == toHexPair(r) \o toHexPair(g) \o toHexPair(b)

blendChannel(a, b, factor) == MathRound(Add(N(a), Mul(N(b - a), factor)))

\* returns the string 'rgb(r, g, b)': the triple of its channel numbers
interpolate(color1, color2, factor) ==
    LET c1 == hexToRgb(color1)
        c2 == hexToRgb(color2)
    IN  <<blendChannel(c1.r, c2.r, factor),
          blendChannel(c1.g, c2.g, factor),
          blendChannel(c1.b, c2.b, factor)>>

interpolateHex(color1, color2, factor) ==
    LET c1 == hexToRgb(color1)
        c2 == hexToRgb(color2)
    IN  rgbToHex(blendChannel(c1.r, c2.r, factor),
                 blendChannel(c1.g, c2.g, factor),
                 blendChannel(c1.b, c2.b, factor))

\* the virtual index scaled by the number of stops instead of the number of intervals
gradientCallByLength(stops, p) ==
    LET clampedProgress == MathMax(N(0), MathMin(N(1), p))
        colorIndex == Mul(clampedProgress, N(Len(stops)))
        lowerIndex == MathMin(MathFloor(colorIndex), N(Len(stops) - 1))
        upperIndex == MathMin(Add(lowerIndex, N(1)), N(Len(stops) - 1))
        blend == Sub(colorIndex, lowerIndex)
    IN  [colors |-> stops, progress |-> p,
         lowerIndex |-> lowerIndex, upperIndex |-> upperIndex,
         result |-> interpolate(At(stops, lowerIndex), At(stops, upperIndex), blend)]

\* one call of getGradientColor: its arguments, the two indices it reads, its result
gradientCall(stops, p) ==
    LET clampedProgress == MathMax(N(0), MathMin(N(1), p))
        colorIndex == Mul(clampedProgress, N(Len(stops) - 1))
        lowerIndex == MathFloor(colorIndex)
        upperIndex == MathMin(Add(lowerIndex, N(1)), N(Len(stops) - 1))
        blend == Sub(colorIndex, lowerIndex)
    IN  [colors |-> stops, progress |-> p,
         lowerIndex |-> lowerIndex, upperIndex |-> upperIndex,
         result |-> interpolate(At(stops, lowerIndex), At(stops, upperIndex), blend)]

getGradientColor(stops, p) == gradientCall(stops, p).result

-----------------------------------------------------------------------------
(* ClockFaceLayer: palettes *)

defaultColorSequence ==
    << <<15, 5, 14, 8, 13, 8>>,     \* 0: Sun          #f5e8d8
       <<14, 8, 14, 4, 13, 12>>,    \* 1: Moon         #e8e4dc
       <<1, 10, 1, 10, 2, 14>>,     \* 2: Night        #1a1a2e
       <<2, 13, 4, 0, 5, 9>>,       \* 3: Twilight     #2d4059
       <<10, 6, 6, 13, 8, 15>>,     \* 4: Sunrise 1    #a66d8f
       <<13, 4, 10, 5, 10, 5>>,     \* 5: Sunrise 2    #d4a5a5
       <<15, 0, 12, 5, 10, 0>>,     \* 6: Sunrise End  #f0c5a0
       <<14, 8, 13, 12, 12, 4>>,    \* 7: Early Morning #e8dcc4
       <<12, 5, 13, 8, 13, 8>>,     \* 8: Morning      #c5d8d8
       <<10, 8, 12, 5, 12, 5>>,     \* 9: Late Morning #a8c5c5
       <<8, 15, 10, 5, 10, 5>>,     \* 10: Pre-Noon    #8fa5a5
       <<7, 10, 9, 9, 9, 9>> >>     \* 11: Solar Noon  #7a9999

NauticalSteps == 10

SunriseSteps == 25

generateGradient(color1, color2, steps) ==
    [i \in 1..steps |-> interpolateHex(color1, color2, Div(N(i - 1), N(steps - 1)))]

RECURSIVE multiGradientLoop(_, _, _, _)
multiGradientLoop(cs, totalSteps, i, result) ==
    LET segments == Len(cs) - 1
        stepsPerSegment == totalSteps \div segments
        segmentSteps == IF i = segments - 1 THEN totalSteps - Len(result) ELSE stepsPerSegment
    IN  IF i >= segments THEN result
        ELSE multiGradientLoop(cs, totalSteps, i + 1,
                 result \o [j \in 1..segmentSteps |->
                     interpolateHex(cs[i + 1], cs[i + 2], Div(N(j - 1), N(segmentSteps)))])

generateMultiGradient(cs, totalSteps) ==
    IF Len(cs) < 2 THEN <<cs[1]>>
    ELSE LET result == multiGradientLoop(cs, totalSteps, 0, <<>>)
         IN  IF Len(result) < totalSteps THEN Append(result, cs[Len(cs)]) ELSE result

generateColorPalettes(seq) ==
    LET morningNautical == generateGradient(seq[3], seq[4], NauticalSteps)
        morningSunrise == generateMultiGradient(SubSeq(seq, 4, 7), SunriseSteps)
        firstHalf == generateMultiGradient(SubSeq(seq, 7, 12), SunriseSteps)
        secondHalf == Tail(Reverse(firstHalf))
    IN  [morningNautical |-> morningNautical,
         morningSunrise |-> morningSunrise,
         midday |-> firstHalf \o secondHalf,
         eveningSunset |-> Reverse(morningSunrise),
         eveningNautical |-> Reverse(morningNautical),
         night |-> seq[3],
         sun |-> seq[1],
         moon |-> seq[2]]

\* the palettes the constructor generates from the default sequence
defaultColors == generateColorPalettes(defaultColorSequence)

-----------------------------------------------------------------------------
(* ClockFaceLayer: phase mapping *)

null == <<>>

calculatePhasePercentages(sd, tzOffset) ==
    LET nauticalBegin == getHoursAtLocation(sd.nauticalTwilightBegin, tzOffset)
        civilBegin == getHoursAtLocation(sd.civilTwilightBegin, tzOffset)
        sunrise == getHoursAtLocation(sd.sunrise, tzOffset)
        sunset == getHoursAtLocation(sd.sunset, tzOffset)
        civilEnd == getHoursAtLocation(sd.civilTwilightEnd, tzOffset)
        nauticalEnd == getHoursAtLocation(sd.nauticalTwilightEnd, tzOffset)
        totalDuration == Sub(nauticalEnd, nauticalBegin)
    IN  [morningNautical |-> Div(Sub(civilBegin, nauticalBegin), totalDuration),
         morningSunrise |-> Div(Sub(sunrise, civilBegin), totalDuration),
         midday |-> Div(Sub(sunset, sunrise), totalDuration),
         eveningSunset |-> Div(Sub(civilEnd, sunset), totalDuration),
         eveningNautical |-> Div(Sub(nauticalEnd, civilEnd), totalDuration)]

\* the cumulative boundaries p1..p4 of getSkyColor
cumulative(ph) ==
    LET p1 == ph.morningNautical
        p2 == Add(p1, ph.morningSunrise)
        p3 == Add(p2, ph.midday)
        p4 == Add(p3, ph.eveningSunset)
    IN  <<p1, p2, p3, p4>>

\* the getGradientColor call that getSkyColor ends with
skyColorCall(cols, p, ph) ==
    LET c == cumulative(ph)
    IN  IF Lt(p, c[1]) THEN gradientCall(cols.morningNautical, Div(p, c[1]))
        ELSE IF Lt(p, c[2]) THEN gradientCall(cols.morningSunrise, Div(Sub(p, c[1]), ph.morningSunrise))
        ELSE IF Lt(p, c[3]) THEN gradientCall(cols.midday, Div(Sub(p, c[2]), ph.midday))
        ELSE IF Lt(p, c[4]) THEN gradientCall(cols.eveningSunset, Div(Sub(p, c[3]), ph.eveningSunset))
        ELSE gradientCall(cols.eveningNautical, Div(Sub(p, c[4]), ph.eveningNautical))

getSkyColor(cols, p, ph) == skyColorCall(cols, p, ph).result

-----------------------------------------------------------------------------
(* MoonService *)

MinutesPerDay == HoursPerDay * MinutesPerHour

\* a Date object of SunCalc is <<t>>, t its instant; a missing one is <<>>
getTime(d) == d[1]

\* the midpoint rule without the day added to an earlier set
moonHourAngleCallSameDay(instant, moonTimes, moonPosition) ==
    IF moonTimes.rise # null /\ moonTimes.set # null
    THEN LET transitTime == Div(N(getTime(moonTimes.rise) + getTime(moonTimes.set)), N(2))
         IN  [rule |-> "midpoint", transitTime |-> transitTime,
              hourAngle |-> Div(Sub(N(instant), transitTime), N(MinutesPerHour))]
    ELSE [rule |-> "azimuth", transitTime |-> null,
          hourAngle |-> Mul(Div(moonPosition.azimuth, MathPI), N(HalfDayHours))]

\* the azimuth used only when rise and set are both missing; a missing one counts as 0
moonHourAngleCallBothMissing(instant, moonTimes, moonPosition) ==
    IF moonTimes.rise # null \/ moonTimes.set # null
    THEN LET rise == IF moonTimes.rise = null THEN 0 ELSE getTime(moonTimes.rise)
             set == IF moonTimes.set = null THEN 0 ELSE getTime(moonTimes.set)
             transitTime == IF set > rise
                            THEN Div(N(rise + set), N(2))
                            ELSE Div(N(rise + set + MinutesPerDay), N(2))
         IN  [rule |-> "midpoint", transitTime |-> transitTime,
              hourAngle |-> Div(Sub(N(instant), transitTime), N(MinutesPerHour))]
    ELSE [rule |-> "azimuth", transitTime |-> null,
          hourAngle |-> Mul(Div(moonPosition.azimuth, MathPI), N(HalfDayHours))]

\* one call of getMoonHourAngle: the rule it took, the transit it estimated, its result.
\* moonTimes and moonPosition are what SunCalc.getMoonTimes and SunCalc.getMoonPosition
\* return for the date; 24 * 60 * 60 * 1000 ms is one day, 1000 * 60 * 60 ms one hour.
moonHourAngleCall(instant, moonTimes, moonPosition) ==
    IF moonTimes.rise # null /\ moonTimes.set # null
    THEN LET transitTime ==
                 IF getTime(moonTimes.set) > getTime(moonTimes.rise)
                 THEN Div(N(getTime(moonTimes.rise) + getTime(moonTimes.set)), N(2))
                 ELSE LET setNext == getTime(moonTimes.set) + MinutesPerDay
                      IN  Div(N(getTime(moonTimes.rise) + setNext), N(2))
         IN  [rule |-> "midpoint", transitTime |-> transitTime,
              hourAngle |-> Div(Sub(N(instant), transitTime), N(MinutesPerHour))]
    ELSE [rule |-> "azimuth", transitTime |-> null,
          hourAngle |-> Mul(Div(moonPosition.azimuth, MathPI), N(HalfDayHours))]

getMoonHourAngle(instant, moonTimes, moonPosition) ==
    moonHourAngleCall(instant, moonTimes, moonPosition).hourAngle

\* the hour angle added to the local hour instead of subtracted
getMoonClockAnglePlus(instant, moonTimes, moonPosition, tzOffset) ==
    LET hourAngle == getMoonHourAngle(instant, moonTimes, moonPosition)
        utcHours == Add(N(getUTCHours(instant)), Div(N(getUTCMinutes(instant)), N(MinutesPerHour)))
        localHours == SubtractWhileOver(AddWhileNegative(Add(utcHours, tzOffset)))
        moonHours == SubtractWhileOver(AddWhileNegative(Add(localHours, hourAngle)))
        adjustedHours == Sub(moonHours, N(HalfDayHours))
    IN  Div(Mul(adjustedHours, MathPI), N(HalfDayHours))

getMoonClockAngle(instant, moonTimes, moonPosition, tzOffset) ==
    LET hourAngle == getMoonHourAngle(instant, moonTimes, moonPosition)
        utcHours == Add(N(getUTCHours(instant)), Div(N(getUTCMinutes(instant)), N(MinutesPerHour)))
        localHours == SubtractWhileOver(AddWhileNegative(Add(utcHours, tzOffset)))
        moonHours == SubtractWhileOver(AddWhileNegative(Sub(localHours, hourAngle)))
        adjustedHours == Sub(moonHours, N(HalfDayHours))
    IN  Div(Mul(adjustedHours, MathPI), N(HalfDayHours))

-----------------------------------------------------------------------------
(* ClockFaceLayer: custom colours *)

\* a JavaScript value that is not a number: kind is what typeof and Array.isArray tell of it,
\* value its entries (an array, an array-like object) or its characters (a string)
Value(kind, value) == [kind |-> kind, value |-> value]

ArrayIsArray(v) == v.kind = "array"

SequenceLength == 12

\* [...array]: a new array of the same entries
spread(array) == [k \in 1..Len(array) |-> array[k]]

\* every array accepted, whatever its length
setCustomColorsAnyLength(colorSequence) ==
    [userColorSequence |-> IF ArrayIsArray(colorSequence)
                           THEN spread(colorSequence.value)
                           ELSE spread(defaultColorSequence),
     sameArray |-> FALSE]

\* one call of setCustomColors: the sequence it stores and whether that is the very array it
\* was handed
setCustomColorsCall(colorSequence) ==
    [userColorSequence |-> IF ArrayIsArray(colorSequence)
                                /\ Len(colorSequence.value) = SequenceLength
                           THEN spread(colorSequence.value)
                           ELSE spread(defaultColorSequence),
     sameArray |-> FALSE]

\* the palettes of the constructor kept, whatever the sequence
palettesOfDefault(seq) == generateColorPalettes(defaultColorSequence)

\* the palettes setCustomColors generates from the sequence it stored; text that is no colour
\* is black to hexToRgb, and the sun, moon and night entries are taken as they are
palettesOf(seq) == IF Len(seq) = SequenceLength THEN generateColorPalettes(seq) ELSE null

-----------------------------------------------------------------------------
(* SkyClock: colour controls *)

\* this.defaultColors of the controller
thisDefaultColors ==
    << <<15, 5, 14, 8, 13, 8>>, <<14, 8, 14, 4, 13, 12>>, <<1, 10, 1, 10, 2, 14>>,
       <<2, 13, 4, 0, 5, 9>>, <<10, 6, 6, 13, 8, 15>>, <<13, 4, 10, 5, 10, 5>>,
       <<15, 0, 12, 5, 10, 0>>, <<14, 8, 13, 12, 12, 4>>, <<12, 5, 13, 8, 13, 8>>,
       <<10, 8, 12, 5, 12, 5>>, <<8, 15, 10, 5, 10, 5>>, <<7, 10, 9, 9, 9, 9>> >>

\* a string kept in localStorage: the empty string, text that is no JSON, or the JSON text of
\* a value
Text(empty, wellFormed, value) == [empty |-> empty, wellFormed |-> wellFormed, value |-> value]

\* JSON.stringify of an array: an entry that is undefined or a hole is written as null
JSONstringify(v) ==
    Text(FALSE, TRUE,
         IF ArrayIsArray(v)
         THEN Value("array", [k \in 1..Len(v.value) |->
                                 IF v.value[k] = undefined THEN null ELSE v.value[k]])
         ELSE v)

\* JSON.parse: the value, or a SyntaxError thrown
JSONparse(text) ==
    IF text.wellFormed THEN [threw |-> FALSE, value |-> text.value]
    ELSE [threw |-> TRUE, value |-> undefined]

\* the array indexed by data-index that getColorsFromPickers builds
getColorsFromPickers(pick) == Value("array", [k \in 1..Len(pick) |-> pick[k]])

\* every picker whose entry of colors is truthy takes it; undefined, null and '' are all <<>>
updateColorPickers(pick, entries) ==
    [k \in 1..Len(pick) |->
        IF k <= Len(entries) /\ entries[k] # undefined THEN entries[k] ELSE pick[k]]

\* one call of loadSavedColors over the layer's sequence and the pickers: what they are afterwards,
\* whether JSON.parse threw, whether the catch block ran, whether applyColors was called
loadSavedColors(savedColors, seq, pick) ==
    IF savedColors = null \/ savedColors.empty
    THEN [userColorSequence |-> seq, pickers |-> pick,
          threw |-> FALSE, caught |-> FALSE, applied |-> FALSE]
    ELSE LET parsed == JSONparse(savedColors)
         IN  IF parsed.threw
             THEN [userColorSequence |-> seq, pickers |-> pick,
                   threw |-> TRUE, caught |-> TRUE, applied |-> FALSE]
             ELSE IF ArrayIsArray(parsed.value) /\ Len(parsed.value.value) = SequenceLength
             THEN [userColorSequence |-> setCustomColorsCall(parsed.value).userColorSequence,
                   pickers |-> updateColorPickers(pick, parsed.value.value),
                   threw |-> FALSE, caught |-> FALSE, applied |-> TRUE]
             ELSE [userColorSequence |-> seq, pickers |-> pick,
                   threw |-> FALSE, caught |-> FALSE, applied |-> FALSE]

\* localStorage.setItem('skyClockColors', JSON.stringify(colors))
saveColors(cols) == JSONstringify(cols)

-----------------------------------------------------------------------------
(* Bounded inputs *)

MaxTick == 20

TimeStep == 90

MaxOffset == 26

MaxDur == 3

DurStep == 240

MaxStart == 2

StartStep == 480

MaxStops == 3

ProgressDen == 4

Instants == {k * TimeStep : k \in 0..MaxTick}

Offsets == {N(k) : k \in (-MaxOffset)..MaxOffset}

Durations == {k * DurStep : k \in 0..MaxDur}

SunDataOf(nb, d1, d2, d3, d4, d5) ==
    [nauticalTwilightBegin |-> nb,
     civilTwilightBegin |-> nb + d1,
     sunrise |-> nb + d1 + d2,
     sunset |-> nb + d1 + d2 + d3,
     civilTwilightEnd |-> nb + d1 + d2 + d3 + d4,
     nauticalTwilightEnd |-> nb + d1 + d2 + d3 + d4 + d5]

\* six non-decreasing instants of one day, nauticalEnd > nauticalBegin
BoundarySets ==
    {SunDataOf(k * StartStep, d[1], d[2], d[3], d[4], d[5]) :
        k \in 0..MaxStart,
        d \in {e \in [1..5 -> Durations] :
                 /\ e[1] + e[2] + e[3] + e[4] + e[5] > 0
                 /\ e[1] + e[2] + e[3] + e[4] + e[5] <= MinutesPerDay}}

\* offsets of New York, Greenwich and Tokyo: Math.round(lng / 15)
SkyOffsets == {N(-5), N(0), N(9)}

ProgressSamples(ph) ==
    {N(0), N(1), Num(1, 2)}
        \cup {c \in {cumulative(ph)[k] : k \in 1..4} : Ge(c, N(0)) /\ Ge(N(1), c)}

StopLists ==
    {SubSeq(defaultColorSequence, a, b) :
        a \in 1..Len(defaultColorSequence),
        b \in 1..Len(defaultColorSequence)} \ {<<>>}

ShortStopLists == {l \in StopLists : Len(l) <= MaxStops}

GradientInputs ==
    ShortStopLists \cup {defaultColors.morningNautical, defaultColors.morningSunrise,
                         defaultColors.midday}

MaxMoonEvent == 11

MoonStep == 120

\* the Date of a moonrise or a moonset, or <<>> when the moon does not cross the
\* horizon that day; a rise and a set are two different crossings
MoonEvents == {<<k * MoonStep>> : k \in 0..MaxMoonEvent} \cup {null}

MoonTimes ==
    {[rise |-> r, set |-> t] : r \in MoonEvents, t \in MoonEvents}
        \ {[rise |-> e, set |-> e] : e \in MoonEvents \ {null}}

\* SunCalc.getMoonTimes looks for the crossings in the 24 hours from the start of the
\* browser's local day that holds the date: some day start d has d <= date < d + 24 h and
\* every crossing in [d, d + 24 h]
InDayOf(instant, moonTimes) ==
    LET crossings == {getTime(e) : e \in {moonTimes.rise, moonTimes.set} \ {null}}
    IN  /\ \A e \in crossings : e - MinutesPerDay <= instant /\ instant - MinutesPerDay < e
        /\ \A e1, e2 \in crossings : e1 - e2 <= MinutesPerDay

AzimuthDen == 2

\* every other instant
MoonInstants == {t \in Instants : t % (2 * TimeStep) = 0}

\* azimuths in (-pi, pi], as fractions of pi
MoonPositions == {[azimuth |-> Num(k, AzimuthDen)] : k \in (1 - AzimuthDen)..AzimuthDen}

ProgressValues(stops) ==
    {Num(i, Len(stops) - 1) : i \in 0..(Len(stops) - 2)}
        \cup {Num(k, ProgressDen) : k \in (-ProgressDen)..(2 * ProgressDen)}

-----------------------------------------------------------------------------
(* The pure functions applied to bounded inputs *)

\* no controller: the state a pure function does not read
IdleController ==
    /\ mode = "rotating"
    /\ location = null
    /\ pending = {}
    /\ frame = null
    /\ date = 0

\* no MoonService call
IdleMoon == times = null /\ position = null /\ moon = null

MoonUnchanged == UNCHANGED <<times, position, moon>>

\* no glyph placed
IdleGlyph == dimensions = null /\ glyph = null

GlyphUnchanged == UNCHANGED <<dimensions, glyph>>

\* no colour controls: the layer keeps the sequence its constructor copied
IdleStore ==
    /\ userColorSequence = defaultColorSequence
    /\ argument = null /\ store = null /\ pickers = null /\ loaded = null

StoreUnchanged == UNCHANGED <<userColorSequence, argument, store, pickers, loaded>>

\* no timelapse controller
IdleTimelapse == timelapse = null /\ alert = "" /\ clock = 0

TimelapseUnchanged == UNCHANGED <<timelapse, alert, clock>>

Idle == IdleController /\ IdleMoon /\ IdleGlyph /\ IdleStore /\ IdleTimelapse

IdleUnchanged ==
    /\ UNCHANGED <<mode, location, date, pending, frame, colors>>
    /\ MoonUnchanged
    /\ GlyphUnchanged
    /\ StoreUnchanged
    /\ TimelapseUnchanged

\* TimeUtils on every instant and offset
InitTime ==
    /\ Idle
    /\ colors = null
    /\ currentTime \in Instants
    /\ timezoneOffset \in Offsets
    /\ sunData = null /\ phases = null /\ progress = null /\ gradient = null
    /\ hours = null /\ angle = null

GetHoursAtLocation ==
    /\ hours = null
    /\ hours' = getHoursAtLocation(currentTime, timezoneOffset)
    /\ UNCHANGED <<currentTime, timezoneOffset, sunData, phases, progress, gradient, angle>>
    /\ IdleUnchanged

\* a later instant at the same location
GetAngleAtLocation ==
    \E t \in Instants :
        /\ t > currentTime \/ angle = null
        /\ currentTime' = t
        /\ hours' = getHoursAtLocation(t, timezoneOffset)
        /\ angle' = getAngleAtLocation(t, timezoneOffset)
        /\ UNCHANGED <<timezoneOffset, sunData, phases, progress, gradient>>
        /\ IdleUnchanged

NextTime == GetHoursAtLocation \/ GetAngleAtLocation

SpecTime == InitTime /\ [][NextTime]_vars

\* ColorUtils.getGradientColor on stop lists and progress values
InitGradient ==
    /\ Idle
    /\ colors = null
    /\ currentTime = 0 /\ timezoneOffset = N(0)
    /\ sunData = null /\ phases = null /\ progress = null /\ gradient = null
    /\ hours = null /\ angle = null

GetGradientColor ==
    /\ gradient = null
    /\ \E stops \in GradientInputs :
        \E p \in ProgressValues(stops) :
            gradient' = gradientCall(stops, p)
    /\ UNCHANGED <<currentTime, timezoneOffset, sunData, phases, progress, hours, angle>>
    /\ IdleUnchanged

NextGradient == GetGradientColor

SpecGradient == InitGradient /\ [][NextGradient]_vars

\* ClockFaceLayer phase mapping on every boundary set and offset
InitSky ==
    /\ Idle
    /\ colors = defaultColors
    /\ currentTime = 0
    /\ timezoneOffset \in SkyOffsets
    /\ sunData \in BoundarySets
    /\ phases = null /\ progress = null /\ gradient = null
    /\ hours = null /\ angle = null

CalculatePhasePercentages ==
    /\ phases = null
    /\ phases' = calculatePhasePercentages(sunData, timezoneOffset)
    /\ UNCHANGED <<currentTime, timezoneOffset, sunData, progress, gradient, hours, angle>>
    /\ IdleUnchanged

GetSkyColor ==
    /\ phases # null
    /\ \E p \in ProgressSamples(phases) :
        /\ progress' = p
        /\ gradient' = skyColorCall(colors, p, phases)
    /\ UNCHANGED <<currentTime, timezoneOffset, sunData, phases, hours, angle>>
    /\ IdleUnchanged

NextSky == CalculatePhasePercentages \/ GetSkyColor

SpecSky == InitSky /\ [][NextSky]_vars

\* MoonService on every instant, offset and moon ephemeris
InitMoon ==
    /\ IdleController
    /\ colors = null
    /\ currentTime \in MoonInstants
    /\ timezoneOffset \in SkyOffsets
    /\ times \in MoonTimes
    /\ InDayOf(currentTime, times)
    /\ position \in MoonPositions
    /\ moon = null
    /\ sunData = null /\ phases = null /\ progress = null /\ gradient = null
    /\ hours = null /\ angle = null
    /\ IdleGlyph
    /\ IdleStore
    /\ IdleTimelapse

GetMoonHourAngle ==
    /\ moon = null
    /\ moon' = moonHourAngleCall(currentTime, times, position)
    /\ UNCHANGED <<mode, location, date, pending, frame, colors, times, position>>
    /\ GlyphUnchanged
    /\ StoreUnchanged
    /\ TimelapseUnchanged
    /\ UNCHANGED <<currentTime, timezoneOffset, sunData, phases, progress, gradient, hours, angle>>

GetMoonClockAngle ==
    /\ moon # null
    /\ "clockAngle" \notin DOMAIN moon
    /\ moon' = [rule |-> moon.rule, transitTime |-> moon.transitTime,
                hourAngle |-> moon.hourAngle,
                clockAngle |-> getMoonClockAngle(currentTime, times, position, timezoneOffset)]
    /\ UNCHANGED <<mode, location, date, pending, frame, colors, times, position>>
    /\ GlyphUnchanged
    /\ StoreUnchanged
    /\ TimelapseUnchanged
    /\ UNCHANGED <<currentTime, timezoneOffset, sunData, phases, progress, gradient, hours, angle>>

NextMoon == GetMoonHourAngle \/ GetMoonClockAngle

SpecMoon == InitMoon /\ [][NextMoon]_vars

-----------------------------------------------------------------------------
(* ClockFaceLayer: what one render draws *)

\* state.timezoneOffset || 0
orZero(x) == IF IsNaN(x) THEN N(0) ELSE x

HalfPi == Div(MathPI, N(2))

numStops == 100

\* renderDaylightArc: the arc's two ends and the fractions handed to getSkyColor by
\* renderWithConicGradient
renderDaylightArc(sd, tzOffset, rotationOffset) ==
    [startAngle |-> Add(getAngleAtLocation(sd.nauticalTwilightBegin, orZero(tzOffset)), rotationOffset),
     endAngle |-> Add(getAngleAtLocation(sd.nauticalTwilightEnd, orZero(tzOffset)), rotationOffset),
     phases |-> calculatePhasePercentages(sd, orZero(tzOffset))]

\* the colour stops renderWithConicGradient adds for the fractions of an arc
conicStops(cols, arc) ==
    [i \in 1..(numStops + 1) |-> getSkyColor(cols, Div(N(i - 1), N(numStops)), arc.phases)]

\* the call of getSkyColor made by getCurrentSkyColor, null when it returns the night colour
currentSkyCall(sd, now, tzOffset) ==
    LET currentHours == getHoursAtLocation(now, tzOffset)
        nauticalBeginHours == getHoursAtLocation(sd.nauticalTwilightBegin, tzOffset)
        nauticalEndHours == getHoursAtLocation(sd.nauticalTwilightEnd, tzOffset)
    IN  IF Lt(currentHours, nauticalBeginHours) \/ Gt(currentHours, nauticalEndHours)
        THEN null
        ELSE [progress |-> Div(Sub(currentHours, nauticalBeginHours),
                               Sub(nauticalEndHours, nauticalBeginHours)),
              phases |-> calculatePhasePercentages(sd, tzOffset)]

getCurrentSkyColor(cols, sd, now, tzOffset) ==
    IF sd = null THEN cols.night
    ELSE LET call == currentSkyCall(sd, now, tzOffset)
         IN  IF call = null THEN cols.night
             ELSE getSkyColor(cols, call.progress, call.phases)

\* canvas angle of the indicator line (top = -pi/2)
renderTimeIndicator(m, now, tzOffset) ==
    IF m = "fixed"
    THEN Sub(getAngleAtLocation(now, orZero(tzOffset)), HalfPi)
    ELSE Neg(HalfPi)

\* one call of renderSun: the local hours it reads, its midpoint, the angles it derives
sunCall(sd, tzOffset, rotationOffset) ==
    LET sunriseHours == getHoursAtLocation(sd.sunrise, orZero(tzOffset))
        sunsetHours == getHoursAtLocation(sd.sunset, orZero(tzOffset))
        solarNoonHours == Div(Add(sunriseHours, sunsetHours), N(2))
        adjustedHours == Sub(solarNoonHours, N(HalfDayHours))
        sunAngle == Add(Div(Mul(adjustedHours, MathPI), N(HalfDayHours)), rotationOffset)
    IN  [sunriseHours |-> sunriseHours, sunsetHours |-> sunsetHours,
         solarNoonHours |-> solarNoonHours, rotationOffset |-> rotationOffset,
         sunAngle |-> sunAngle, canvasAngle |-> Sub(sunAngle, HalfPi)]

\* canvas angle of the sun glyph
renderSun(sd, tzOffset, rotationOffset) == sunCall(sd, tzOffset, rotationOffset).canvasAngle

OrbitPercent == 28

GlyphPercent == 18

\* the moon on the middle of the ring
moonDiscMidRing(dims, direction) ==
    LET ringWidth == Sub(dims.outerRadius, dims.innerRadius)
        moonOrbitRadius == Add(dims.innerRadius, Mul(ringWidth, Num(1, 2)))
    IN  [x |-> Add(dims.centerX, Mul(direction[1], moonOrbitRadius)),
         y |-> Add(dims.centerY, Mul(direction[2], moonOrbitRadius)),
         radius |-> Mul(ringWidth, Num(GlyphPercent, 100))]

\* the disc renderSun fills; direction is <<Math.cos(canvasAngle), Math.sin(canvasAngle)>>
sunDisc(dims, direction) ==
    LET ringWidth == Sub(dims.outerRadius, dims.innerRadius)
        sunOrbitRadius == Sub(dims.outerRadius, Mul(ringWidth, Num(OrbitPercent, 100)))
    IN  [x |-> Add(dims.centerX, Mul(direction[1], sunOrbitRadius)),
         y |-> Add(dims.centerY, Mul(direction[2], sunOrbitRadius)),
         radius |-> Mul(ringWidth, Num(GlyphPercent, 100))]

\* the disc renderMoon hands to drawMoonPhase
moonDisc(dims, direction) ==
    LET ringWidth == Sub(dims.outerRadius, dims.innerRadius)
        moonOrbitRadius == Add(dims.innerRadius, Mul(ringWidth, Num(OrbitPercent, 100)))
    IN  [x |-> Add(dims.centerX, Mul(direction[1], moonOrbitRadius)),
         y |-> Add(dims.centerY, Mul(direction[2], moonOrbitRadius)),
         radius |-> Mul(ringWidth, Num(GlyphPercent, 100))]

steps == 60

\* ctx.arc(x, y, radius, 0, Math.PI * 2): the whole disc
fullDisc(x, y, radius) == [kind |-> "disc", x |-> x, y |-> y, radius |-> radius]

\* the path moveTo, arc, lineTo (steps + 1 times), closePath of the lit portion.  A point of the
\* terminator is <<x + xPos, y + yPos>> with xPos = coef * Math.sqrt(Math.max(0, 1 - (yPos / radius) ** 2));
\* the square root is kept as a symbol and the point is recorded as its factor coef and its yPos.
litPath(x, y, radius, coef, anticlockwise) ==
    [kind |-> "lit", x |-> x, y |-> y, radius |-> radius,
     start |-> [coef |-> coef, yPos |-> Neg(radius)],
     anticlockwise |-> anticlockwise,
     points |-> [i \in 0..steps |->
                    [coef |-> coef,
                     yPos |-> Sub(radius, Mul(Mul(N(2), radius), Num(i, steps)))]]]

\* waxing decided by the fraction instead of the phase
drawMoonPhaseByFraction(x, y, radius, phase, fraction) ==
    IF Lt(fraction, Num(1, 100))
    THEN <<[fill |-> "night", path |-> fullDisc(x, y, radius)]>>
    ELSE IF Gt(fraction, Num(99, 100))
    THEN <<[fill |-> "moon", path |-> fullDisc(x, y, radius)]>>
    ELSE LET isWaxing == Lt(fraction, Num(1, 2))
             terminatorX == Mul(radius, Sub(N(1), Mul(N(2), fraction)))
         IN  <<[fill |-> "night", path |-> fullDisc(x, y, radius)],
               [fill |-> "moon",
                path |-> IF isWaxing
                         THEN litPath(x, y, radius, terminatorX, FALSE)
                         ELSE litPath(x, y, radius, Neg(terminatorX), TRUE)],
               [stroke |-> "night", lineWidth |-> 3, path |-> fullDisc(x, y, radius)]>>

\* the terminator drawn for every fraction
drawMoonPhaseNoEdgeCases(x, y, radius, phase, fraction) ==
    LET isWaxing == Lt(phase, Num(1, 2))
        terminatorX == Mul(radius, Sub(N(1), Mul(N(2), fraction)))
    IN  <<[fill |-> "night", path |-> fullDisc(x, y, radius)],
          [fill |-> "moon",
           path |-> IF isWaxing
                    THEN litPath(x, y, radius, terminatorX, FALSE)
                    ELSE litPath(x, y, radius, Neg(terminatorX), TRUE)],
          [stroke |-> "night", lineWidth |-> 3, path |-> fullDisc(x, y, radius)]>>

\* the fills and the outline drawMoonPhase puts on the canvas, in order; "night" and "moon" are
\* this.colors.night and this.colors.moon
drawMoonPhase(x, y, radius, phase, fraction) ==
    IF Lt(fraction, Num(1, 100))
    THEN <<[fill |-> "night", path |-> fullDisc(x, y, radius)]>>
    ELSE IF Gt(fraction, Num(99, 100))
    THEN <<[fill |-> "moon", path |-> fullDisc(x, y, radius)]>>
    ELSE LET isWaxing == Lt(phase, Num(1, 2))
             terminatorX == Mul(radius, Sub(N(1), Mul(N(2), fraction)))
         IN  <<[fill |-> "night", path |-> fullDisc(x, y, radius)],
               [fill |-> "moon",
                path |-> IF isWaxing
                         THEN litPath(x, y, radius, terminatorX, FALSE)
                         ELSE litPath(x, y, radius, Neg(terminatorX), TRUE)],
               [stroke |-> "night", lineWidth |-> 3, path |-> fullDisc(x, y, radius)]>>

\* the base ring drawn only together with the daylight arc
layerRenderRingWithArc(cols, m, sd, now, tzOffset, rotationOffset) ==
    [mode |-> m, currentTime |-> now, timezoneOffset |-> tzOffset, sunData |-> sd,
     rotationOffset |-> rotationOffset,
     ring |-> IF sd # null THEN cols.night ELSE null,
     arc |-> IF sd # null THEN renderDaylightArc(sd, tzOffset, rotationOffset) ELSE null,
     skyCall |-> IF sd # null THEN currentSkyCall(sd, now, tzOffset) ELSE null,
     center |-> IF sd # null THEN getCurrentSkyColor(cols, sd, now, tzOffset) ELSE cols.night,
     sun |-> IF sd # null THEN renderSun(sd, tzOffset, rotationOffset) ELSE null,
     indicator |-> renderTimeIndicator(m, now, tzOffset)]

\* ClockFaceLayer.render with the state it is handed: the night base ring; with sun data the
\* daylight arc and the centre sky, without it the centre in the night colour; the sun glyph when
\* there is sun data; the time indicator
layerRender(cols, m, sd, now, tzOffset, rotationOffset) ==
    [mode |-> m, currentTime |-> now, timezoneOffset |-> tzOffset, sunData |-> sd,
     rotationOffset |-> rotationOffset,
     ring |-> cols.night,
     arc |-> IF sd # null THEN renderDaylightArc(sd, tzOffset, rotationOffset) ELSE null,
     skyCall |-> IF sd # null THEN currentSkyCall(sd, now, tzOffset) ELSE null,
     center |-> IF sd # null THEN getCurrentSkyColor(cols, sd, now, tzOffset) ELSE cols.night,
     sun |-> IF sd # null THEN renderSun(sd, tzOffset, rotationOffset) ELSE null,
     indicator |-> renderTimeIndicator(m, now, tzOffset)]

-----------------------------------------------------------------------------
(* ClockFaceLayer: the sun and moon glyphs on bounded inputs *)

\* renderSun on every boundary set and offset, in both modes
InitSun ==
    /\ IdleController
    /\ IdleMoon
    /\ IdleGlyph
    /\ IdleStore
    /\ IdleTimelapse
    /\ colors = null
    /\ currentTime = 0
    /\ timezoneOffset \in SkyOffsets
    /\ sunData \in BoundarySets
    /\ phases = null /\ progress = null /\ gradient = null
    /\ hours = null /\ angle = null

RenderSun ==
    /\ glyph = null
    /\ \E rotationOffset \in {N(0), Neg(getAngleAtLocation(currentTime, timezoneOffset))} :
        glyph' = sunCall(sunData, timezoneOffset, rotationOffset)
    /\ UNCHANGED <<mode, location, date, pending, frame, colors, dimensions>>
    /\ UNCHANGED <<currentTime, timezoneOffset, sunData, phases, progress, gradient, hours, angle>>
    /\ MoonUnchanged
    /\ StoreUnchanged
    /\ TimelapseUnchanged

NextSun == RenderSun

SpecSun == InitSun /\ [][NextSun]_vars

MaxRadius == 4

RadiusUnit == 40

MaxSize == 3

SizeUnit == 100

\* what resizeCanvases derives from the container's size
resized(size) ==
    [centerX |-> Div(N(size), N(2)),
     centerY |-> Div(N(size), N(2)),
     outerRadius |-> Mul(N(size), Num(42, 100)),
     innerRadius |-> Mul(N(size), Num(26, 100)),
     ringWidth |-> Mul(N(size), Num(16, 100))]

\* a ring of whole radii about a fixed centre
ring(i, o) ==
    [centerX |-> N(MaxRadius * RadiusUnit),
     centerY |-> N(MaxRadius * RadiusUnit),
     outerRadius |-> N(o * RadiusUnit),
     innerRadius |-> N(i * RadiusUnit),
     ringWidth |-> N((o - i) * RadiusUnit)]

\* rings resizeCanvases gives, and every other ring with outerRadius > innerRadius >= 0
ClockDimensions ==
    {resized(k * SizeUnit) : k \in 1..MaxSize}
        \cup {ring(io[1], io[2]) :
                io \in {p \in (0..MaxRadius) \X (0..MaxRadius) : p[1] < p[2]}}

\* <<cos, sin>> of the canvas angles whose cosine and sine are both rational
Directions ==
    {<<N(1), N(0)>>, <<N(0), N(1)>>, <<N(-1), N(0)>>, <<N(0), N(-1)>>,
     <<Num(3, 5), Num(4, 5)>>, <<Num(-4, 5), Num(3, 5)>>,
     <<Num(-3, 5), Num(-4, 5)>>, <<Num(4, 5), Num(-3, 5)>>}

\* the two discs of one frame, for every ring and every pair of angles
InitGlyph ==
    /\ IdleController
    /\ IdleMoon
    /\ colors = null
    /\ currentTime = 0 /\ timezoneOffset = N(0)
    /\ sunData = null /\ phases = null /\ progress = null /\ gradient = null
    /\ hours = null /\ angle = null
    /\ dimensions \in ClockDimensions
    /\ glyph = null
    /\ IdleStore
    /\ IdleTimelapse

RenderGlyphs ==
    /\ glyph = null
    /\ \E sunDirection \in Directions, moonDirection \in Directions :
        glyph' = [sun |-> sunDisc(dimensions, sunDirection),
                  moon |-> moonDisc(dimensions, moonDirection)]
    /\ UNCHANGED <<mode, location, date, pending, frame, colors, dimensions>>
    /\ UNCHANGED <<currentTime, timezoneOffset, sunData, phases, progress, gradient, hours, angle>>
    /\ MoonUnchanged
    /\ StoreUnchanged
    /\ TimelapseUnchanged

NextGlyph == RenderGlyphs

SpecGlyph == InitGlyph /\ [][NextGlyph]_vars

FractionDen == 20

EdgeDen == 200

PhaseDen == 4

\* illuminated fractions SunCalc.getMoonIllumination can give, with the values about 0.01 and 0.99
MoonFractions ==
    {Num(k, FractionDen) : k \in 0..FractionDen}
        \cup {Num(k, EdgeDen) : k \in 1..3}
        \cup {Num(EdgeDen - k, EdgeDen) : k \in 1..3}

\* phases SunCalc.getMoonIllumination can give: 0 <= phase < 1
MoonPhases == {Num(k, PhaseDen) : k \in 0..(PhaseDen - 1)}

\* drawMoonPhase for every phase and fraction, on the disc renderMoon hands it: the moon at the
\* top of the dial or lower right, on a ring resizeCanvases gives
InitPhase ==
    /\ IdleController
    /\ colors = null
    /\ currentTime = 0 /\ timezoneOffset = N(0)
    /\ sunData = null /\ phases = null /\ progress = null /\ gradient = null
    /\ hours = null /\ angle = null
    /\ times = null /\ position = null
    /\ moon \in [phase : MoonPhases, fraction : MoonFractions]
    /\ dimensions \in {resized(k * SizeUnit) : k \in 1..MaxSize}
    /\ glyph = null
    /\ IdleStore
    /\ IdleTimelapse

DrawMoonPhase ==
    /\ glyph = null
    /\ \E direction \in {<<N(0), N(-1)>>, <<Num(3, 5), Num(4, 5)>>} :
        LET disc == moonDisc(dimensions, direction)
        IN  glyph' = drawMoonPhase(disc.x, disc.y, disc.radius, moon.phase, moon.fraction)
    /\ UNCHANGED <<mode, location, date, pending, frame, colors, dimensions>>
    /\ UNCHANGED <<currentTime, timezoneOffset, sunData, phases, progress, gradient, hours, angle>>
    /\ MoonUnchanged
    /\ StoreUnchanged
    /\ TimelapseUnchanged

NextPhase == DrawMoonPhase

SpecPhase == InitPhase /\ [][NextPhase]_vars

-----------------------------------------------------------------------------
(* ClockFaceLayer: setCustomColors on bounded arguments *)

MaxLength == 13

MaxWriteIndex == 1

black == <<0, 0, 0, 0, 0, 0>>

\* text that is no '#rrggbb' colour, such as 'red'
notAColor == <<HexBase>>

\* the empty array and arrays of about twelve entries, of colours, of text that is no colour, of holes
Arrays ==
    {Value("array", [k \in 1..n |-> defaultColorSequence[((k - 1) % SequenceLength) + 1]]) :
        n \in {0} \cup ((SequenceLength - 1)..MaxLength)}
      \cup {Value("array", [k \in 1..SequenceLength |-> e]) : e \in {black, notAColor, undefined}}

\* what a caller can hand to setCustomColors: undefined, a string of twelve characters, an object
\* with twelve indexed entries that is no array, and the arrays
Arguments ==
    {Value("undefined", <<>>),
     Value("string", [k \in 1..SequenceLength |-> notAColor]),
     Value("object", defaultColorSequence)}
      \cup Arrays

\* the layer after its constructor
InitLayer ==
    /\ IdleController
    /\ IdleMoon
    /\ IdleGlyph
    /\ IdleTimelapse
    /\ colors = generateColorPalettes(defaultColorSequence)
    /\ currentTime = 0 /\ timezoneOffset = N(0)
    /\ sunData = null /\ phases = null /\ progress = null /\ gradient = null
    /\ hours = null /\ angle = null
    /\ userColorSequence = spread(defaultColorSequence)
    /\ argument = null
    /\ store = null /\ pickers = null /\ loaded = null

LayerUnchanged ==
    /\ UNCHANGED <<mode, location, date, pending, frame>>
    /\ UNCHANGED <<currentTime, timezoneOffset, sunData, phases, progress, gradient, hours, angle>>
    /\ MoonUnchanged
    /\ GlyphUnchanged
    /\ TimelapseUnchanged

\* a caller hands a value to setCustomColors and keeps it
SetCustomColors ==
    /\ \E colorSequence \in Arguments :
        LET call == setCustomColorsCall(colorSequence)
        IN  /\ argument' = [value |-> colorSequence, sameArray |-> call.sameArray]
            /\ userColorSequence' = call.userColorSequence
            /\ colors' = palettesOf(userColorSequence')
    /\ UNCHANGED <<store, pickers, loaded>>
    /\ LayerUnchanged

\* the caller writes an entry of the array it handed over, or pushes one; the layer's sequence
\* changes with it only when it is that very array
CallerWrites ==
    /\ argument # null
    /\ ArrayIsArray(argument.value)
    /\ \E written \in
          {[argument.value.value EXCEPT ![ic[1]] = ic[2]] :
              ic \in {k \in 1..(MaxWriteIndex + 1) : k <= Len(argument.value.value)}
                        \X {black, notAColor}}
            \cup (IF Len(argument.value.value) < MaxLength
                  THEN {Append(argument.value.value, black)} ELSE {}) :
        /\ written # argument.value.value
        /\ argument' = [argument EXCEPT !.value = Value("array", written)]
        /\ userColorSequence' = IF argument.sameArray THEN written ELSE userColorSequence
    /\ UNCHANGED <<colors, store, pickers, loaded>>
    /\ LayerUnchanged

NextLayer == SetCustomColors \/ CallerWrites

SpecLayer == InitLayer /\ [][NextLayer]_vars

-----------------------------------------------------------------------------
(* SkyClock: the colour controls on bounded inputs *)

MaxPickerIndex == 0

white == <<15, 15, 15, 15, 15, 15>>

\* what 'skyClockColors' can hold when the page starts: nothing, the empty string, text that is
\* no JSON, the JSON text of an object, of an array of another length, of twelve colours, of
\* twelve strings that are no colours, of twelve nulls
StoredTexts ==
    {null, Text(TRUE, FALSE, undefined), Text(FALSE, FALSE, undefined),
     JSONstringify(Value("object", <<>>))}
      \cup {JSONstringify(a) : a \in Arrays}

\* the values the twelve pickers have when the page is loaded: the default colours, or the
\* black of a colour input that has no value of its own
PickerPages == {thisDefaultColors, [k \in 1..SequenceLength |-> black]}

\* the constructors and setupColorControls: the layer's own default sequence, the page's
\* pickers, then loadSavedColors; the record keeps what was read and what came of it
startup(savedColors, page) ==
    LET load == loadSavedColors(savedColors, spread(defaultColorSequence), page)
    IN  [savedColors |-> savedColors, page |-> page,
         userColorSequence |-> load.userColorSequence, pickers |-> load.pickers,
         threw |-> load.threw, caught |-> load.caught, applied |-> load.applied]

InitColors ==
    /\ IdleController
    /\ IdleMoon
    /\ IdleGlyph
    /\ IdleTimelapse
    /\ currentTime = 0 /\ timezoneOffset = N(0)
    /\ sunData = null /\ phases = null /\ progress = null /\ gradient = null
    /\ hours = null /\ angle = null
    /\ argument = null
    /\ store \in StoredTexts
    /\ \E page \in PickerPages : loaded = startup(store, page)
    /\ userColorSequence = loaded.userColorSequence
    /\ pickers = loaded.pickers
    /\ colors = palettesOf(userColorSequence)

\* reset without the removal of the stored item
resetColorsKeepsItem ==
    /\ pickers' = updateColorPickers(pickers, thisDefaultColors)
    /\ userColorSequence' = setCustomColorsCall(Value("array", thisDefaultColors)).userColorSequence
    /\ colors' = palettesOf(userColorSequence')
    /\ UNCHANGED <<store, argument, loaded>>
    /\ LayerUnchanged

\* the input event of a picker: the user has set picker i to colour c
handleColorChange ==
    /\ \E i \in 1..(MaxPickerIndex + 1), c \in {black, white} :
        LET cols == getColorsFromPickers([pickers EXCEPT ![i] = c])
        IN  /\ pickers' = [pickers EXCEPT ![i] = c]
            /\ userColorSequence' = setCustomColorsCall(cols).userColorSequence
            /\ store' = saveColors(cols)
    /\ colors' = palettesOf(userColorSequence')
    /\ UNCHANGED <<argument, loaded>>
    /\ LayerUnchanged

\* the click on the reset button
resetColors ==
    /\ pickers' = updateColorPickers(pickers, thisDefaultColors)
    /\ userColorSequence' = setCustomColorsCall(Value("array", thisDefaultColors)).userColorSequence
    /\ colors' = palettesOf(userColorSequence')
    /\ store' = null
    /\ UNCHANGED <<argument, loaded>>
    /\ LayerUnchanged

\* the page is loaded again: new objects, the same store
restart ==
    /\ loaded' = startup(store, loaded.page)
    /\ userColorSequence' = loaded'.userColorSequence
    /\ pickers' = loaded'.pickers
    /\ colors' = palettesOf(userColorSequence')
    /\ UNCHANGED <<argument, store>>
    /\ LayerUnchanged

NextColors == handleColorChange \/ resetColors \/ restart

SpecColors == InitColors /\ [][NextColors]_vars

-----------------------------------------------------------------------------
(* SkyClock: the controller *)

\* rotation always taken from the current angle, whatever the mode
renderAlwaysRotating(cols, m, sd, now, tzOffset) ==
    layerRender(cols, m, sd, now, tzOffset, Neg(getAngleAtLocation(now, tzOffset)))

render(cols, m, sd, now, tzOffset) ==
    LET rotationOffset ==
            IF m = "rotating" THEN Neg(getAngleAtLocation(now, tzOffset)) ELSE N(0)
    IN  layerRender(cols, m, sd, now, tzOffset, rotationOffset)

DegreesPerHour == 15

\* Math.round(location.lng / 15)
offsetOf(loc) == MathRound(Div(loc.lng, N(DegreesPerHour)))

\* LocationService.getDefault: New York, 40.7128, -74.0060
getDefault == [lat |-> Num(407128, 10000), lng |-> Num(-740060, 10000)]

\* another place a geolocation fix, a coordinate pair or a geocoding hit can give
Longyearbyen == [lat |-> Num(782232, 10000), lng |-> Num(156267, 10000)]

Places == {getDefault, Longyearbyen}

MaxDay == 0

MaxPending == 2

MaxFrame == 2

FrameStep == 360

\* the instants at which frames are drawn
FrameTimes == {k * FrameStep : k \in 0..MaxFrame}

PolarLatitude == 66

MinutesPerDegree == 4

\* The answer of api.sunrise-sunset.org for a request: twilight, sunrise and sunset
\* around the solar noon of the longitude on the requested day; beyond the polar circle
\* the events do not occur and every field is the same placeholder instant.
sunTimes(request) ==
    LET noon == request.date * MinutesPerDay + (MinutesPerDay \div 2)
                  - MathRound(Mul(request.lng, N(MinutesPerDegree)))[1]
    IN  IF Ge(request.lat, N(PolarLatitude))
        THEN SunDataOf(0, 0, 0, 0, 0, 0)
        ELSE SunDataOf(noon - 480, 60, 30, 780, 30, 60)

Init ==
    /\ mode = "rotating"
    /\ location = null
    /\ timezoneOffset = N(0)
    /\ sunData = null
    /\ currentTime = 0
    /\ date = 0
    /\ pending = {}
    /\ colors = defaultColors
    /\ frame = render(defaultColors, "rotating", null, 0, N(0))
    /\ phases = null /\ progress = null /\ gradient = null
    /\ hours = null /\ angle = null
    /\ IdleMoon
    /\ IdleGlyph
    /\ IdleStore
    /\ IdleTimelapse

ScratchUnchanged ==
    /\ UNCHANGED <<colors, phases, progress, gradient, hours, angle>>
    /\ MoonUnchanged
    /\ GlyphUnchanged
    /\ StoreUnchanged
    /\ TimelapseUnchanged

\* date.toISOString().split('T')[0]: the UTC day of a Date
dateStr(d) == d \div MinutesPerDay

\* fetchSunData up to its await: the request leaves with the location and the day of the call
fetchSunData(loc, d) ==
    IF loc = null THEN pending
    ELSE pending \cup {[lat |-> loc.lat, lng |-> loc.lng, date |-> dateStr(d)]}

setMode(m) ==
    /\ mode # m
    /\ mode' = m
    /\ UNCHANGED <<location, timezoneOffset, sunData, currentTime, date, pending, frame>>
    /\ ScratchUnchanged

\* one animation frame: the clock is read, then everything is drawn
animate ==
    \E now \in FrameTimes :
        /\ now >= currentTime
        /\ currentTime' = now
        /\ frame' = render(colors, mode, sunData, now, timezoneOffset)
        /\ UNCHANGED <<mode, location, timezoneOffset, sunData, date, pending>>
        /\ ScratchUnchanged

resizeCanvases ==
    /\ frame' = render(colors, mode, sunData, currentTime, timezoneOffset)
    /\ UNCHANGED <<mode, location, timezoneOffset, sunData, currentTime, date, pending>>
    /\ ScratchUnchanged

\* the location handlers after their await: a geolocation fix, a parsed coordinate
\* pair or a geocoding hit
setLocation(loc) ==
    /\ Cardinality(fetchSunData(loc, date)) <= MaxPending
    /\ location' = loc
    /\ timezoneOffset' = offsetOf(loc)
    /\ pending' = fetchSunData(loc, date)
    /\ UNCHANGED <<mode, sunData, currentTime, date, frame>>
    /\ ScratchUnchanged

tryGetUserLocation ==
    \/ \E loc \in Places : setLocation(loc)
    \/ setLocation(getDefault)

searchLocation == \E loc \in Places : setLocation(loc)

handleDateChange ==
    \E day \in 0..MaxDay :
        /\ date' = day * MinutesPerDay + MinutesPerDay \div 2
        /\ Cardinality(fetchSunData(location, date')) <= MaxPending
        /\ pending' = fetchSunData(location, date')
        /\ UNCHANGED <<mode, location, timezoneOffset, sunData, currentTime, frame>>
        /\ ScratchUnchanged

\* fetchSunData that drops the answer of a request the state has moved on from
fetchSunDataDoneLatestOnly ==
    \E request \in pending :
        /\ sunData' = IF request = [lat |-> location.lat, lng |-> location.lng,
                                    date |-> dateStr(date)]
                      THEN sunTimes(request)
                      ELSE sunData
        /\ pending' = pending \ {request}
        /\ UNCHANGED <<mode, location, timezoneOffset, currentTime, date, frame>>
        /\ ScratchUnchanged

\* fetchSunData after its await: the answer replaces state.sunData
fetchSunDataDone ==
    \E request \in pending :
        /\ sunData' = sunTimes(request)
        /\ pending' = pending \ {request}
        /\ UNCHANGED <<mode, location, timezoneOffset, currentTime, date, frame>>
        /\ ScratchUnchanged

\* fetchSunData after its await, the request failed: the error is logged
fetchSunDataFailed ==
    \E request \in pending :
        /\ pending' = pending \ {request}
        /\ UNCHANGED <<mode, location, timezoneOffset, sunData, currentTime, date, frame>>
        /\ ScratchUnchanged

Next ==
    \/ \E m \in {"fixed", "rotating"} : setMode(m)
    \/ animate
    \/ resizeCanvases
    \/ tryGetUserLocation
    \/ searchLocation
    \/ handleDateChange
    \/ fetchSunDataDone
    \/ fetchSunDataFailed

Spec == Init /\ [][Next]_vars

-----------------------------------------------------------------------------
(* SkyClock with timelapse: the controller that computes its sun data locally *)

MsPerSecond == 1000

MsPerHour == 3600000

MsPerMinute == MsPerHour \div MinutesPerHour

MaxSeconds == 3

MaxSpeed == 2

PageLoad == 1320

\* the timestamps requestAnimationFrame hands to animate (milliseconds since page load)
Timestamps == {k * MsPerSecond : k \in 1..MaxSeconds}

\* the settings of the #timelapseSpeed input, hours per second
Speeds == 1..MaxSpeed

\* the days the #dateInput is set to: the day the page was loaded and the next
Days == {PageLoad \div MinutesPerDay, PageLoad \div MinutesPerDay + 1}

\* new Date(): the real present when the page has run for t milliseconds
present(t) == PageLoad + t \div MsPerMinute

\* new Date(value) for a number of milliseconds: the time value is cut to a whole number
newDate(value) == (value[1] \div value[2]) \div MsPerMinute

\* new Date(d) with setHours of the hours, minutes and seconds of t (the browser runs on UTC)
setHours(d, t) == (d \div MinutesPerDay) * MinutesPerDay + (t % MinutesPerDay)

notFound == "Location not found. Try entering coordinates (lat,lng)."

unable == "Unable to calculate sun data. Please check your location coordinates."

\* SunService.getSunData: the events SunCalc gives for the day of the date
getSunData(lat, lng, d) == sunTimes([lat |-> lat, lng |-> lng, date |-> dateStr(d)])

\* fetchSunData without the catch: the failed computation clears state.sunData
fetchSunDataLocalClears(loc, d, sd, al, threw) ==
    IF loc = null THEN [sunData |-> sd, alert |-> al]
    ELSE IF threw THEN [sunData |-> null, alert |-> unable]
    ELSE [sunData |-> getSunData(loc.lat, loc.lng, d), alert |-> al]

\* fetchSunData, synchronous: state.sunData and the last alert after the call;
\* threw says whether SunService.getSunData raised
fetchSunDataLocal(loc, d, sd, al, threw) ==
    IF loc = null THEN [sunData |-> sd, alert |-> al]
    ELSE IF threw THEN [sunData |-> sd, alert |-> unable]
    ELSE [sunData |-> getSunData(loc.lat, loc.lng, d), alert |-> al]

InitTimelapse ==
    /\ mode = "rotating"
    /\ location = null
    /\ timezoneOffset = N(0)
    /\ sunData = null
    /\ currentTime = present(0)
    /\ date = present(0)
    /\ pending = {}
    /\ colors = defaultColors
    /\ frame = render(defaultColors, "rotating", null, present(0), N(0))
    /\ phases = null /\ progress = null /\ gradient = null
    /\ hours = null /\ angle = null
    /\ IdleMoon
    /\ IdleGlyph
    /\ IdleStore
    /\ timelapse = [enabled |-> FALSE, speed |-> 1, simulatedTime |-> present(0),
                    lastFrameTime |-> null, lastDateStr |-> null]
    /\ alert = ""
    /\ clock = 0

PageUnchanged ==
    /\ UNCHANGED <<mode, pending, colors, phases, progress, gradient, hours, angle>>
    /\ MoonUnchanged
    /\ GlyphUnchanged
    /\ StoreUnchanged

\* toggleTimelapse that keeps lastFrameTime when the timelapse is enabled
toggleTimelapseKeepsLastFrame(threw) ==
    /\ IF ~timelapse.enabled
       THEN /\ timelapse' = [timelapse EXCEPT
                                !.enabled = TRUE,
                                !.simulatedTime = setHours(date, currentTime),
                                !.lastDateStr = <<dateStr(date)>>]
            /\ UNCHANGED <<date, currentTime, sunData, alert>>
       ELSE LET fetched == fetchSunDataLocal(location, present(clock), sunData, alert, threw)
            IN  /\ timelapse' = [timelapse EXCEPT !.enabled = FALSE]
                /\ date' = present(clock)
                /\ currentTime' = present(clock)
                /\ sunData' = fetched.sunData
                /\ alert' = fetched.alert
    /\ UNCHANGED <<location, timezoneOffset, frame, clock>>
    /\ PageUnchanged

\* toggleTimelapse; lastDateStr holds the day in a one-element tuple, <<>> for null
toggleTimelapse(threw) ==
    /\ IF ~timelapse.enabled
       THEN /\ timelapse' = [timelapse EXCEPT
                                !.enabled = TRUE,
                                !.simulatedTime = setHours(date, currentTime),
                                !.lastFrameTime = null,
                                !.lastDateStr = <<dateStr(date)>>]
            /\ UNCHANGED <<date, currentTime, sunData, alert>>
       ELSE LET fetched == fetchSunDataLocal(location, present(clock), sunData, alert, threw)
            IN  /\ timelapse' = [timelapse EXCEPT !.enabled = FALSE]
                /\ date' = present(clock)
                /\ currentTime' = present(clock)
                /\ sunData' = fetched.sunData
                /\ alert' = fetched.alert
    /\ UNCHANGED <<location, timezoneOffset, frame, clock>>
    /\ PageUnchanged

\* outcomes: whether SunService.getSunData may raise (TRUE) or return (FALSE) in the handler
ToggleTimelapse(outcomes) == \E threw \in outcomes : toggleTimelapse(threw)

\* the input handler of #timelapseSpeed
SetSpeed ==
    \E speed \in Speeds :
        /\ speed # timelapse.speed
        /\ timelapse' = [timelapse EXCEPT !.speed = speed]
        /\ UNCHANGED <<location, timezoneOffset, sunData, currentTime, date, frame, alert, clock>>
        /\ PageUnchanged

\* one animation frame of the timelapse controller, with the render at its end
Animate(outcomes) ==
    \E timestamp \in Timestamps, threw \in outcomes :
        /\ timestamp > clock
        /\ clock' = timestamp
        /\ IF timelapse.enabled
           THEN IF timelapse.lastFrameTime # null
                THEN LET deltaSeconds ==
                             Div(Sub(N(timestamp), timelapse.lastFrameTime), N(MsPerSecond))
                         hoursToAdd == Mul(deltaSeconds, N(timelapse.speed))
                         simulatedTime ==
                             newDate(Add(N(timelapse.simulatedTime * MsPerMinute),
                                         Mul(hoursToAdd, N(MsPerHour))))
                         newDateStr == <<dateStr(simulatedTime)>>
                         fetched ==
                             IF newDateStr # timelapse.lastDateStr
                             THEN fetchSunDataLocal(location, simulatedTime, sunData, alert, threw)
                             ELSE [sunData |-> sunData, alert |-> alert]
                     IN  /\ timelapse' = [timelapse EXCEPT
                                             !.simulatedTime = simulatedTime,
                                             !.lastFrameTime = N(timestamp),
                                             !.lastDateStr = newDateStr]
                         /\ currentTime' = simulatedTime
                         /\ date' = simulatedTime
                         /\ sunData' = fetched.sunData
                         /\ alert' = fetched.alert
                ELSE /\ timelapse' = [timelapse EXCEPT !.lastFrameTime = N(timestamp)]
                     /\ UNCHANGED <<currentTime, date, sunData, alert>>
           ELSE /\ currentTime' = present(timestamp)
                /\ UNCHANGED <<timelapse, date, sunData, alert>>
        /\ frame' = render(colors, mode, sunData', currentTime', timezoneOffset)
        /\ UNCHANGED <<location, timezoneOffset>>
        /\ PageUnchanged

HandleDateChange(outcomes) ==
    \E day \in Days, threw \in outcomes :
        LET fetched ==
                fetchSunDataLocal(location, day * MinutesPerDay + MinutesPerDay \div 2,
                                  sunData, alert, threw)
        IN  /\ date' = day * MinutesPerDay + MinutesPerDay \div 2
            /\ sunData' = fetched.sunData
            /\ alert' = fetched.alert
            /\ UNCHANGED <<location, timezoneOffset, currentTime, frame, timelapse, clock>>
            /\ PageUnchanged

\* what tryGetUserLocation, setDefaultLocation and searchLocation do with a resolved place
resolved(loc, threw) ==
    LET fetched == fetchSunDataLocal(loc, date, sunData, alert, threw)
    IN  /\ location' = loc
        /\ timezoneOffset' = offsetOf(loc)
        /\ sunData' = fetched.sunData
        /\ alert' = fetched.alert
        /\ UNCHANGED <<currentTime, date, frame, timelapse, clock>>
        /\ PageUnchanged

setDefaultLocation(outcomes) == \E threw \in outcomes : resolved(getDefault, threw)

\* LocationService.getCurrentPosition resolves, or rejects and the catch takes the default
TryGetUserLocation(outcomes) ==
    \/ \E loc \in Places, threw \in outcomes : resolved(loc, threw)
    \/ setDefaultLocation(outcomes)

\* LocationService.geocode rejects: the catch of searchLocation shows an alert
searchLocationMiss ==
    /\ alert' = notFound
    /\ UNCHANGED <<location, timezoneOffset, sunData, currentTime, date, frame, timelapse, clock>>
    /\ PageUnchanged

\* a coordinate pair or a geocoding hit, or a geocoding miss
SearchLocation(outcomes) ==
    \/ \E loc \in Places, threw \in outcomes : resolved(loc, threw)
    \/ searchLocationMiss

\* the timelapse: frames, toggles, speed, date and location changes; SunCalc returns
NextTimelapse ==
    \/ Animate({FALSE})
    \/ ToggleTimelapse({FALSE})
    \/ SetSpeed
    \/ HandleDateChange({FALSE})
    \/ TryGetUserLocation({FALSE})
    \/ SearchLocation({FALSE})

SpecTimelapse == InitTimelapse /\ [][NextTimelapse]_vars

\* the handlers when a location is not resolved or the sun data cannot be computed
NextErrors ==
    \/ Animate(BOOLEAN)
    \/ HandleDateChange(BOOLEAN)
    \/ TryGetUserLocation(BOOLEAN)
    \/ SearchLocation(BOOLEAN)

SpecErrors == InitTimelapse /\ [][NextErrors]_vars

-----------------------------------------------------------------------------
(* ClockFaceLayer: the palettes between setCustomColors and render *)

\* the layer's render with the state of a controller: both modes, every frame time, no sun
\* data or the sun data of the default place; it reads this.colors
LayerRender ==
    /\ \E m \in {"fixed", "rotating"}, now \in FrameTimes,
          sd \in {null, sunTimes([lat |-> getDefault.lat, lng |-> getDefault.lng, date |-> 0])} :
        frame' = render(colors, m, sd, now, offsetOf(getDefault))
    /\ UNCHANGED <<mode, location, date, pending>>
    /\ UNCHANGED <<currentTime, timezoneOffset, sunData, phases, progress, gradient, hours, angle>>
    /\ MoonUnchanged
    /\ GlyphUnchanged
    /\ TimelapseUnchanged
    /\ UNCHANGED <<colors, userColorSequence, argument, store, pickers, loaded>>

\* a setCustomColors call whose caller does not keep the array
SetColors ==
    /\ \E colorSequence \in Arguments :
        userColorSequence' = setCustomColorsCall(colorSequence).userColorSequence
    /\ colors' = palettesOf(userColorSequence')
    /\ UNCHANGED <<argument, store, pickers, loaded>>
    /\ LayerUnchanged

NextPalette == SetColors \/ LayerRender

SpecPalette == InitLayer /\ [][NextPalette]_vars

-----------------------------------------------------------------------------
(* ClockFaceLayer: generateMultiGradient on bounded inputs *)

MaxTotalSteps == 6

\* lists of at least two colours: runs of the default sequence, among them the two lists
\* generateColorPalettes passes
ColorLists ==
    {l \in ShortStopLists : Len(l) >= 2}
        \cup {SubSeq(defaultColorSequence, 4, 7), SubSeq(defaultColorSequence, 7, 12)}

\* one call with totalSteps >= the number of segments: its arguments and its result
GenerateMultiGradient ==
    /\ gradient = null
    /\ \E cs \in ColorLists :
        \E totalSteps \in {n \in (1..MaxTotalSteps) \cup {SunriseSteps} : n >= Len(cs) - 1} :
            gradient' = [colors |-> cs, totalSteps |-> totalSteps,
                         result |-> generateMultiGradient(cs, totalSteps)]
    /\ UNCHANGED <<currentTime, timezoneOffset, sunData, phases, progress, hours, angle>>
    /\ IdleUnchanged

NextMulti == GenerateMultiGradient

SpecMulti == InitGradient /\ [][NextMulti]_vars

-----------------------------------------------------------------------------
(* Properties *)

\* the colour a '#rrggbb' stop denotes, as channel numbers
rgbOf(hex) == LET c == hexToRgb(hex) IN <<N(c.r), N(c.g), N(c.b)>>

First(stops) == stops[1]

Last(stops) == stops[Len(stops)]

fractions(ph) ==
    <<ph.morningNautical, ph.morningSunrise, ph.midday, ph.eveningSunset, ph.eveningNautical>>

sumOf(ph) ==
    Add(Add(Add(Add(ph.morningNautical, ph.morningSunrise), ph.midday), ph.eveningSunset),
        ph.eveningNautical)

\* five fractions, each a number >= 0, summing to 1
ValidPhases(ph) ==
    /\ \A k \in 1..5 : IsFinite(fractions(ph)[k]) /\ Ge(fractions(ph)[k], N(0))
    /\ sumOf(ph) = N(1)

ValidTimeBoundarySet(sd) ==
    /\ sd.nauticalTwilightBegin <= sd.civilTwilightBegin
    /\ sd.civilTwilightBegin <= sd.sunrise
    /\ sd.sunrise <= sd.sunset
    /\ sd.sunset <= sd.civilTwilightEnd
    /\ sd.civilTwilightEnd <= sd.nauticalTwilightEnd
    /\ sd.nauticalTwilightEnd > sd.nauticalTwilightBegin

palettes(cols) ==
    <<cols.morningNautical, cols.morningSunrise, cols.midday, cols.eveningSunset,
      cols.eveningNautical>>

\* C1: for every valid TimeBoundarySet and every offset, the five fractions returned by
\* calculatePhasePercentages are all >= 0 and sum to 1.
C1_FractionsNonNegativeSumOne ==
    (phases # null /\ ValidTimeBoundarySet(sunData)) => ValidPhases(phases)

\* C2: when progress equals a cumulative boundary p1..p4, getSkyColor selects the later
\* segment (the one after the last boundary equal to progress) with local progress 0 and
\* returns the first stop of that segment's palette.
C2_LaterSegmentAtBoundary ==
    (gradient # null /\ phases # null /\ ValidPhases(phases)) =>
        \A k \in 1..4 :
            (/\ progress = cumulative(phases)[k]
             /\ (k = 4 \/ cumulative(phases)[k + 1] # progress)) =>
                /\ gradient.colors = palettes(colors)[k + 1]
                /\ gradient.progress = N(0)
                /\ gradient.result = rgbOf(First(palettes(colors)[k + 1]))

\* C3: when one of the five fractions is zero, getSkyColor returns a well-defined colour
\* for every progress in [0,1]: no division by zero reaches the result, no channel is NaN.
C3_ZeroSegmentNoNaN ==
    (/\ gradient # null /\ phases # null /\ ValidPhases(phases)
     /\ \E k \in 1..5 : fractions(phases)[k] = N(0)
     /\ Ge(progress, N(0)) /\ Ge(N(1), progress)) =>
        /\ IsFinite(gradient.progress)
        /\ \A ch \in 1..3 : IsFinite(gradient.result[ch])

\* C5: for every valid set of fractions, getSkyColor(0) is the first stop of the
\* morningNautical palette and getSkyColor(1) the last stop of the eveningNautical palette.
C5_EndpointColours ==
    (gradient # null /\ phases # null /\ ValidPhases(phases)) =>
        /\ progress = N(0) => gradient.result = rgbOf(First(colors.morningNautical))
        /\ progress = N(1) => gradient.result = rgbOf(Last(colors.eveningNautical))

\* C6: for every stop list of length n >= 2 and every integer i in 0..n-1,
\* getGradientColor(stops, i/(n-1)) is exactly the colour stops[i].
C6_ExactAtStops ==
    (gradient # null /\ Len(gradient.colors) >= 2) =>
        \A i \in 0..(Len(gradient.colors) - 1) :
            gradient.progress = Num(i, Len(gradient.colors) - 1) =>
                gradient.result = rgbOf(gradient.colors[i + 1])

\* an interior stop that differs from both neighbours was sampled
C6_Witness ==
    /\ gradient # null
    /\ Len(gradient.colors) >= 3
    /\ gradient.progress = Num(1, Len(gradient.colors) - 1)
    /\ gradient.result = rgbOf(gradient.colors[2])
    /\ gradient.colors[2] # gradient.colors[1]
    /\ gradient.colors[2] # gradient.colors[3]

IsIndex(i, stops) == IsFinite(i) /\ i[2] = 1 /\ i[1] \in 0..(Len(stops) - 1)

\* C7: getGradientColor clamps progress to [0,1]: progress < 0 gives the first stop,
\* progress > 1 the last stop, both indices read are within 0..n-1, and a list of one
\* stop gives that stop for every progress.
C7_ClampedIndices ==
    gradient # null =>
        /\ IsIndex(gradient.lowerIndex, gradient.colors)
        /\ IsIndex(gradient.upperIndex, gradient.colors)
        /\ Lt(gradient.progress, N(0)) => gradient.result = rgbOf(First(gradient.colors))
        /\ Gt(gradient.progress, N(1)) => gradient.result = rgbOf(Last(gradient.colors))
        /\ Len(gradient.colors) = 1 => gradient.result = rgbOf(First(gradient.colors))

utcHoursOf(instant) ==
    Add(N(getUTCHours(instant)), Div(N(getUTCMinutes(instant)), N(MinutesPerHour)))

IsInteger(a) == IsFinite(a) /\ a[2] = 1

\* C8: for every instant and every offset, also beyond +-24 hours, getHoursAtLocation
\* returns a value in [0,24) congruent modulo 24 to UTC hours-of-day + offset.
C8_HoursWrapped ==
    hours # null =>
        /\ Ge(hours, N(0))
        /\ Lt(hours, N(HoursPerDay))
        /\ IsInteger(Div(Sub(hours, Add(utcHoursOf(currentTime), timezoneOffset)),
                         N(HoursPerDay)))

\* the sum was more than one day out of range on either side
C8_Witness ==
    /\ hours # null
    /\ \/ Ge(Add(utcHoursOf(currentTime), timezoneOffset), N(2 * HoursPerDay))
       \/ Lt(Add(utcHoursOf(currentTime), timezoneOffset), N(-HoursPerDay))
    /\ Gt(hours, N(0))

\* C9: getAngleAtLocation is 0 at local noon and -pi at local midnight, strictly
\* increasing in local hours over [0,24), and always within [-pi, pi).
C9_NoonAtTop ==
    /\ [](angle # null =>
            /\ hours = N(HalfDayHours) => angle = N(0)
            /\ hours = N(0) => angle = Neg(MathPI)
            /\ Ge(angle, Neg(MathPI))
            /\ Lt(angle, MathPI))
    /\ [][(angle # null /\ angle' # null) =>
            /\ Lt(hours, hours') => Lt(angle, angle')
            /\ Lt(hours', hours) => Lt(angle', angle)]_vars

\* local noon at a location whose offset is not zero
C9_Witness ==
    /\ angle # null
    /\ timezoneOffset # N(0)
    /\ hours = N(HalfDayHours)
    /\ angle = N(0)

\* how a canvas reads a colour string: the channels of '#rrggbb' or of 'rgb(r, g, b)'
shown(c) == IF Len(c) = 6 THEN rgbOf(c) ELSE c

AllFinite(ph) == \A k \in 1..5 : IsFinite(fractions(ph)[k])

\* nauticalTwilightEnd and nauticalTwilightBegin fall on the same local hour
ZeroSpan(sd, tzOffset) ==
    getHoursAtLocation(sd.nauticalTwilightEnd, tzOffset)
        = getHoursAtLocation(sd.nauticalTwilightBegin, tzOffset)

\* C4: when the total span is zero, the sky arc and the centre are the single night
\* colour, and no NaN or infinite fraction is handed to getSkyColor.
C4_ZeroSpanIsNight ==
    (frame.sunData # null /\ ZeroSpan(frame.sunData, frame.timezoneOffset)) =>
        /\ frame.arc # null => AllFinite(frame.arc.phases)
        /\ frame.skyCall # null => AllFinite(frame.skyCall.phases)
        /\ shown(frame.center) = rgbOf(colors.night)
        /\ frame.arc # null =>
               \A i \in 1..(numStops + 1) :
                   conicStops(colors, frame.arc)[i] = rgbOf(colors.night)

Top == Neg(HalfPi)

\* C10: every render uses rotationOffset = -getAngleAtLocation(currentTime, timezoneOffset)
\* in rotating mode, so the current time's place on the arc and the indicator are at the
\* top; in fixed mode it uses 0 and the indicator is at getAngleAtLocation(currentTime,
\* timezoneOffset).  Each render draws the mode, time and offset of the state.
C10_RotationOffset ==
    /\ [](LET now == getAngleAtLocation(frame.currentTime, frame.timezoneOffset)
          IN  /\ frame.mode = "rotating" =>
                    /\ frame.rotationOffset = Neg(now)
                    /\ Add(now, frame.rotationOffset) = N(0)
                    /\ frame.indicator = Top
              /\ frame.mode = "fixed" =>
                    /\ frame.rotationOffset = N(0)
                    /\ frame.indicator = Sub(now, HalfPi))
    /\ [][frame' # frame =>
            /\ frame'.mode = mode'
            /\ frame'.currentTime = currentTime'
            /\ frame'.timezoneOffset = timezoneOffset']_vars

\* a frame drawn in fixed mode, away from local noon, at a place with an offset
C10_Witness ==
    /\ frame.mode = "fixed"
    /\ mode = "fixed"
    /\ frame.timezoneOffset # N(0)
    /\ frame.rotationOffset = N(0)
    /\ frame.indicator # Top

\* x brought into [0, 24) by a whole number of days
Mod24(x) == Sub(x, Mul(N(HoursPerDay), MathFloor(Div(x, N(HoursPerDay)))))

\* the noon-at-top angle of an hour of the day
noonAtTop(h) == Div(Mul(Sub(h, N(HalfDayHours)), MathPI), N(HalfDayHours))

C13_AzimuthFallback ==
    moon # null =>
        /\ moon.rule = "azimuth" <=> (times.rise = null \/ times.set = null)
        /\ moon.rule = "midpoint" <=> (times.rise # null /\ times.set # null)
        /\ moon.rule = "azimuth" =>
              moon.hourAngle = Mul(position.azimuth, N(HalfDayHours))
        /\ IsFinite(moon.hourAngle)

\* only the set is missing and the azimuth is not zero
C13_Witness ==
    /\ moon # null
    /\ times.rise # null /\ times.set = null
    /\ position.azimuth # N(0)
    /\ moon.rule = "azimuth"
    /\ moon.hourAngle = Mul(position.azimuth, N(HalfDayHours))

\* C14: the sun glyph is at the noon-at-top angle of the midpoint of the sunrise and sunset
\* local hours, plus rotationOffset; for every sun data and offset the midpoint lies between
\* the sunrise and sunset positions on the dial, inside the daylight arc that runs clockwise
\* from sunrise to sunset.
C14_SunInsideDaylightArc ==
    (glyph # null /\ sunData # null) =>
        /\ glyph.solarNoonHours = Div(Add(glyph.sunriseHours, glyph.sunsetHours), N(2))
        /\ glyph.sunAngle = Add(noonAtTop(glyph.solarNoonHours), glyph.rotationOffset)
        /\ Ge(Mod24(Sub(glyph.sunsetHours, glyph.sunriseHours)),
              Mod24(Sub(glyph.solarNoonHours, glyph.sunriseHours)))

square(a) == Mul(a, a)

\* squared distance of the centres of two discs, in units of w
distance2(a, b, w) == Add(square(Div(Sub(a.x, b.x), w)), square(Div(Sub(a.y, b.y), w)))

\* C15: for every ClockDimensions with outerRadius > innerRadius and every pair of sun and
\* moon angles, the sun disc and the moon disc do not overlap.
C15_DiscsApart ==
    (glyph # null /\ dimensions # null) =>
        LET ringWidth == Sub(dimensions.outerRadius, dimensions.innerRadius)
        IN  /\ glyph.sun.radius = Mul(ringWidth, Num(GlyphPercent, 100))
            /\ glyph.moon.radius = Mul(ringWidth, Num(GlyphPercent, 100))
            /\ Gt(distance2(glyph.sun, glyph.moon, ringWidth),
                  square(Div(Add(glyph.sun.radius, glyph.moon.radius), ringWidth)))

\* both glyphs at the same angle, off the axes, on a ring resizeCanvases gives
C15_Witness ==
    /\ glyph # null /\ dimensions # null
    /\ dimensions = resized(SizeUnit)
    /\ Sub(glyph.sun.x, dimensions.centerX) = Mul(Num(3, 5), Sub(dimensions.outerRadius,
           Mul(Sub(dimensions.outerRadius, dimensions.innerRadius), Num(OrbitPercent, 100))))
    /\ Gt(glyph.moon.y, dimensions.centerY)
    /\ distance2(glyph.sun, glyph.moon, Sub(dimensions.outerRadius, dimensions.innerRadius))
          = square(Num(44, 100))

\* a <= b
Le(a, b) == Ge(b, a)

\* whether a filled path covers the point <<x + a * s, y + yPos>> of row i, where yPos is the row's and
\* s = Math.sqrt(Math.max(0, 1 - (yPos / radius) ** 2)) is the half chord of the unit disc there:
\* the disc spans -radius * s .. radius * s, the lit path spans its arc's side to the terminator
covers(path, a, i) ==
    IF path.kind = "disc"
    THEN Le(Neg(path.radius), a) /\ Le(a, path.radius)
    ELSE IF path.anticlockwise
    THEN Le(Neg(path.radius), a) /\ Le(a, path.points[i].coef)
    ELSE Le(path.points[i].coef, a) /\ Le(a, path.radius)

\* the colour the fills leave at that point: the last fill that covers it
paintedAt(drawing, a, i) ==
    LET over == {k \in 1..Len(drawing) :
                    "fill" \in DOMAIN drawing[k] /\ covers(drawing[k].path, a, i)}
    IN  IF over = {} THEN "none"
        ELSE drawing[CHOOSE k \in over : \A j \in over : j <= k].fill

\* the steps of a drawing that fill a lit path
litFills(drawing) ==
    {k \in 1..Len(drawing) : "fill" \in DOMAIN drawing[k] /\ drawing[k].path.kind = "lit"}

\* the width of the lit path on a row, as a factor of the half chord s
litWidth(drawing) ==
    LET path == drawing[CHOOSE k \in litFills(drawing) : TRUE].path
    IN  IF path.anticlockwise THEN Add(path.points[0].coef, path.radius)
        ELSE Sub(path.radius, path.points[0].coef)

SampleDen == 4

\* points of a row, inside and outside the disc, as factors of the half chord
Samples(radius) ==
    {Mul(radius, Num(k, SampleDen)) : k \in (0 - SampleDen - 1)..(SampleDen + 1)}

\* C16: for every phase, a fraction below 0.01 gives one fill of the whole disc in the night colour
\* and no lit region, a fraction above 0.99 gives one fill of the whole disc in the moon colour,
\* and the terminator path is drawn exactly when 0.01 <= fraction <= 0.99.
C16_EdgeCases ==
    (glyph # null /\ moon # null /\ "fraction" \in DOMAIN moon) =>
        /\ Lt(moon.fraction, Num(1, 100)) =>
              /\ Len(glyph) = 1
              /\ glyph[1].fill = "night" /\ glyph[1].path.kind = "disc"
              /\ \A a \in Samples(glyph[1].path.radius) : paintedAt(glyph, a, steps \div 2) # "moon"
        /\ Gt(moon.fraction, Num(99, 100)) =>
              /\ Len(glyph) = 1
              /\ glyph[1].fill = "moon" /\ glyph[1].path.kind = "disc"
              /\ \A a \in Samples(glyph[1].path.radius) : paintedAt(glyph, a, steps \div 2) # "night"
        /\ litFills(glyph) # {}
              <=> (Ge(moon.fraction, Num(1, 100)) /\ Le(moon.fraction, Num(99, 100)))

\* a fraction strictly between 0 and 0.01, at the phase of a full moon, drawn all dark
C16_Witness ==
    /\ glyph # null /\ moon # null /\ "fraction" \in DOMAIN moon
    /\ Gt(moon.fraction, N(0)) /\ Lt(moon.fraction, Num(1, 100))
    /\ moon.phase = Num(1, 2)
    /\ glyph[1].fill = "night" /\ litFills(glyph) = {}

\* C17: for 0.01 <= fraction <= 0.99 the lit region is the part of the disc right of the
\* terminator x(y) = radius * (1 - 2 * fraction) * sqrt(1 - (y / radius)^2) when phase < 0.5 and
\* its mirror image when phase >= 0.5; at fraction 0.5 with phase < 0.5 the point (+r/2, 0) is
\* lit and (-r/2, 0) is dark; the lit area grows with the fraction.
C17_LitRegion ==
    (/\ glyph # null /\ moon # null /\ "fraction" \in DOMAIN moon
     /\ Ge(moon.fraction, Num(1, 100)) /\ Le(moon.fraction, Num(99, 100))) =>
        LET radius == glyph[1].path.radius
            x == Mul(radius, Sub(N(1), Mul(N(2), moon.fraction)))
            middle == steps \div 2
        IN  /\ litFills(glyph) # {}
            /\ \A i \in 1..(steps - 1) : \A a \in Samples(radius) :
                  IF Lt(moon.phase, Num(1, 2))
                  THEN /\ (Gt(a, x) /\ Lt(a, radius)) => paintedAt(glyph, a, i) = "moon"
                       /\ (Lt(a, x) /\ Gt(a, Neg(radius))) => paintedAt(glyph, a, i) = "night"
                  ELSE /\ (Lt(a, Neg(x)) /\ Gt(a, Neg(radius))) => paintedAt(glyph, a, i) = "moon"
                       /\ (Gt(a, Neg(x)) /\ Lt(a, radius)) => paintedAt(glyph, a, i) = "night"
            /\ \A k \in litFills(glyph) : \A i \in 0..steps :
                  glyph[k].path.points[i].yPos
                      = Sub(radius, Mul(Mul(N(2), radius), Num(i, steps)))
            /\ (moon.fraction = Num(1, 2) /\ Lt(moon.phase, Num(1, 2))) =>
                  /\ \A k \in litFills(glyph) : glyph[k].path.points[middle].yPos = N(0)
                  /\ paintedAt(glyph, Mul(radius, Num(1, 2)), middle) = "moon"
                  /\ paintedAt(glyph, Mul(radius, Num(-1, 2)), middle) = "night"
            /\ \A phase \in MoonPhases : \A fraction \in MoonFractions :
                  (Gt(fraction, moon.fraction) /\ Le(fraction, Num(99, 100))) =>
                      Gt(litWidth(drawMoonPhase(N(0), N(0), radius, phase, fraction)),
                         litWidth(glyph))

\* a waxing half moon: the terminator is the vertical diameter
C17_Witness ==
    /\ glyph # null /\ moon # null /\ "fraction" \in DOMAIN moon
    /\ moon.fraction = Num(1, 2) /\ moon.phase = Num(1, 4)
    /\ litFills(glyph) # {}
    /\ paintedAt(glyph, Mul(glyph[1].path.radius, Num(1, 2)), steps \div 2) = "moon"

\* C18: userColorSequence has exactly 12 entries after the constructor and after every
\* setCustomColors call; a call with anything but an array of length 12 stores the default
\* sequence, a call with such an array stores its entries, and the stored sequence is a copy:
\* a later write of the caller to its array leaves it as it is.
C18_TwelveEntries ==
    /\ [](Len(userColorSequence) = SequenceLength)
    /\ [][SetCustomColors =>
            userColorSequence' =
                IF argument'.value.kind = "array" /\ Len(argument'.value.value) = SequenceLength
                THEN argument'.value.value ELSE defaultColorSequence]_vars
    /\ [][CallerWrites => userColorSequence' = userColorSequence]_vars

\* an accepted array of twelve entries that its caller has written to since
C18_Witness ==
    /\ argument # null
    /\ argument.value.kind = "array"
    /\ Len(argument.value.value) = SequenceLength
    /\ userColorSequence = [k \in 1..SequenceLength |-> notAColor]
    /\ argument.value.value # userColorSequence

\* a well-formed sequence of twelve colours, as JSON text
WellFormedColors(text) ==
    /\ text # null
    /\ text.wellFormed
    /\ ArrayIsArray(text.value)
    /\ Len(text.value.value) = SequenceLength
    /\ \A k \in 1..Len(text.value.value) : IsHexColor(text.value.value[k])

\* C19: whatever is stored under 'skyClockColors' when the page starts, loadSavedColors lets no
\* error out, and the layer keeps the default colour sequence unless the stored text is a
\* well-formed sequence of twelve colours, which then replaces it.
C19_MalformedKeepsDefaults ==
    loaded # null =>
        /\ loaded.threw => loaded.caught
        /\ IF WellFormedColors(loaded.savedColors)
           THEN loaded.userColorSequence = loaded.savedColors.value.value
           ELSE loaded.userColorSequence = defaultColorSequence

\* what a restart would make of the store
restored == startup(store, loaded.page).userColorSequence

\* C20: every handleColorChange leaves in the store the sequence the layer uses, every resetColors
\* leaves no entry and the default sequence, and at every moment a restart that runs
\* loadSavedColors restores the sequence in use.
C20_StoreRoundTrip ==
    /\ [](loaded # null => restored = userColorSequence)
    /\ [][handleColorChange =>
            /\ store' # null /\ store'.wellFormed
            /\ JSONparse(store').value = Value("array", userColorSequence')]_vars
    /\ [][resetColors =>
            store' = null /\ userColorSequence' = defaultColorSequence]_vars

\* an edited sequence in use, after an edit, a reset, another edit and a restart
C20_Witness ==
    /\ loaded # null
    /\ loaded.applied
    /\ loaded.savedColors = store
    /\ userColorSequence # defaultColorSequence
    /\ userColorSequence[1] = white
    /\ pickers = userColorSequence

\* C24: every frame rendered while state.sunData is null has the ring and the centre filled
\* with the night colour, and neither the daylight arc nor the sun glyph.
C24_PlainNightDial ==
    (frame # null /\ frame.sunData = null) =>
        /\ frame.ring = colors.night
        /\ frame.center = colors.night
        /\ frame.arc = null
        /\ frame.sun = null

\* a frame drawn after a location is known and a request is out, before any answer
C24_Witness ==
    /\ frame # null /\ frame.sunData = null
    /\ location # null /\ pending # {}
    /\ frame.currentTime > 0
    /\ frame.timezoneOffset = offsetOf(location)

\* the length of a segment between two instants as a fraction of the span of the arc
share(sd, from, to) ==
    Div(N(to - from), N(sd.nauticalTwilightEnd - sd.nauticalTwilightBegin))

\* C25: each fraction returned by calculatePhasePercentages is the duration of its segment
\* divided by the total span nauticalEnd - nauticalBegin.
C25_FractionIsShareOfSpan ==
    (phases # null /\ ValidTimeBoundarySet(sunData)) =>
        /\ phases.morningNautical
              = share(sunData, sunData.nauticalTwilightBegin, sunData.civilTwilightBegin)
        /\ phases.morningSunrise = share(sunData, sunData.civilTwilightBegin, sunData.sunrise)
        /\ phases.midday = share(sunData, sunData.sunrise, sunData.sunset)
        /\ phases.eveningSunset = share(sunData, sunData.sunset, sunData.civilTwilightEnd)
        /\ phases.eveningNautical
              = share(sunData, sunData.civilTwilightEnd, sunData.nauticalTwilightEnd)

\* C26: after the constructor and after every setCustomColors and render call, this.colors is
\* generateColorPalettes(this.userColorSequence); a render leaves it as it was.
C26_PalettesFollowSequence ==
    /\ [](colors = generateColorPalettes(userColorSequence))
    /\ [][LayerRender => colors' = colors]_vars

\* a frame drawn with the palettes of a sequence that is not the default one
C26_Witness ==
    /\ userColorSequence = [k \in 1..SequenceLength |-> black]
    /\ colors.night = black
    /\ frame # null /\ frame.sunData # null
    /\ frame.ring = black

\* C27: for at least two colours and totalSteps >= the number of segments, generateMultiGradient
\* returns exactly totalSteps colours, the first the first input colour and the last the last
\* input colour.
C27_MultiGradientEnds ==
    (gradient # null /\ "totalSteps" \in DOMAIN gradient) =>
        /\ Len(gradient.result) = gradient.totalSteps
        /\ First(gradient.result) = First(gradient.colors)
        /\ Last(gradient.result) = Last(gradient.colors)

\* C28: the palettes generated from an accepted sequence are continuous across the four segment
\* boundaries: each palette ends with the stop the next one starts with.
C28_PalettesContinuous ==
    (colors # null /\ Len(userColorSequence) = SequenceLength) =>
        \A k \in 1..4 : Last(palettes(colors)[k]) = First(palettes(colors)[k + 1])

\* C21: when the computation of the sun data fails inside fetchSunData, state.sunData keeps
\* the value it had (it is not reset to null), the handler ends normally, and the frames
\* drawn afterwards use the retained data.
C21_FailureKeepsSunData ==
    /\ [][(\/ Animate({TRUE})
           \/ HandleDateChange({TRUE})
           \/ TryGetUserLocation({TRUE})
           \/ SearchLocation({TRUE})) => sunData' = sunData]_vars
    /\ [][Animate(BOOLEAN) =>
            frame' = render(colors, mode, sunData', currentTime', timezoneOffset)]_vars

\* the computation failed after a move to Longyearbyen: the sun data of New York are still
\* there, and a frame has been drawn with them at the new timezone offset
C21_Witness ==
    /\ alert = unable
    /\ location = Longyearbyen
    /\ sunData = getSunData(getDefault.lat, getDefault.lng, date)
    /\ sunData # getSunData(location.lat, location.lng, date)
    /\ clock > 0
    /\ frame = render(colors, mode, sunData, currentTime, timezoneOffset)

\* C22: whenever the location is not resolved, by geolocation or by a geocoding miss, the
\* handler sets the default location and its timezone offset and requests sun data for it.
C22_FailureFallsBackToDefault ==
    [][(setDefaultLocation(BOOLEAN) \/ searchLocationMiss) =>
          /\ location' = getDefault
          /\ timezoneOffset' = offsetOf(getDefault)
          /\ \/ sunData' = getSunData(getDefault.lat, getDefault.lng, date)
             \/ alert' = unable]_vars

\* C23: no request in flight is cancelled, and state.sunData is always the answer of the
\* request that completed last: each completion stores the answer of its own request,
\* whatever was asked since, and nothing else writes state.sunData.
C23_LastCompletionWins ==
    [][IF pending' = pending
       THEN sunData' = sunData
       ELSE /\ fetchSunDataDone =>
                 \E request \in pending :
                     pending' = pending \ {request} /\ sunData' = sunTimes(request)
            /\ ~fetchSunDataDone => sunData' = sunData
            /\ \/ pending \subseteq pending'
               \/ \E request \in pending : pending' = pending \ {request}]_vars

\* every request has completed and the answer on the dial is the one for New York, though
\* Longyearbyen was asked for last
C23_Witness ==
    /\ pending = {}
    /\ location = Longyearbyen
    /\ sunData = sunTimes([lat |-> getDefault.lat, lng |-> getDefault.lng,
                           date |-> dateStr(date)])
    /\ sunData # sunTimes([lat |-> location.lat, lng |-> location.lng,
                           date |-> dateStr(date)])

\* C29: in the timelapse controller, after every completed frame state.sunData is the sun
\* data computed for state.location and for the calendar day of state.date.
C29_FrameShowsDayOfDate ==
    [][Animate({FALSE}) =>
          (location' # null =>
              sunData' = getSunData(location'.lat, location'.lng, date'))]_vars

\* C30: enabling the timelapse clears lastFrameTime, so the first frame after it leaves
\* simulatedTime unchanged; every later frame advances simulatedTime by
\* (timestamp - lastFrameTime) / 1000 * speed hours and sets state.currentTime to it; no
\* other step moves simulatedTime or lastFrameTime, so time spent with the timelapse
\* disabled is never added; disabling resets state.date and state.currentTime to the real
\* present and recomputes the sun data.
C30_TimelapseAdvance ==
    [][IF clock' # clock /\ Animate({FALSE})
       THEN IF ~timelapse.enabled
            THEN timelapse' = timelapse
            ELSE IF timelapse.lastFrameTime = null
            THEN /\ timelapse'.simulatedTime = timelapse.simulatedTime
                 /\ timelapse'.lastFrameTime = N(clock')
            ELSE /\ N(timelapse'.simulatedTime) =
                        Add(N(timelapse.simulatedTime),
                            Mul(Mul(Div(Sub(N(clock'), timelapse.lastFrameTime),
                                        N(MsPerSecond)),
                                    N(timelapse.speed)),
                                N(MinutesPerHour)))
                 /\ currentTime' = timelapse'.simulatedTime
                 /\ timelapse'.lastFrameTime = N(clock')
       ELSE IF timelapse'.enabled # timelapse.enabled
       THEN IF timelapse'.enabled
            THEN timelapse'.lastFrameTime = null
            ELSE /\ date' = present(clock)
                 /\ currentTime' = present(clock)
                 /\ location # null =>
                        sunData' = getSunData(location.lat, location.lng, present(clock))
       ELSE /\ timelapse'.simulatedTime = timelapse.simulatedTime
            /\ timelapse'.lastFrameTime = timelapse.lastFrameTime]_vars

\* three seconds after page load one hour has been added: the second before the timelapse
\* was enabled and the second up to its first frame were not
C30_Witness ==
    /\ timelapse.enabled
    /\ timelapse.speed = 1
    /\ clock = MaxSeconds * MsPerSecond
    /\ timelapse.lastFrameTime = N(clock)
    /\ timelapse.simulatedTime = PageLoad + MinutesPerHour
    /\ currentTime = timelapse.simulatedTime

====
